---- MODULE Spec2Model ----
(***************************************************************************)
(* Model of the exam pipeline of llm_tester: the question generator's      *)
(* generate/validate/retry loop (app/core/generator.py), the exam          *)
(* validator (app/core/validator.py), the section retriever                *)
(* (app/core/retriever.py) and the data model they build                   *)
(* (app/models/schemas.py, app/core/parser.py).                            *)
(*                                                                         *)
(* Texts are sequences of one-character strings, so that tokenisation,    *)
(* lower-casing and number formatting are computed as the code computes    *)
(* them.  A Python Optional is a sequence of length 0 (None) or 1.         *)
(***************************************************************************)
EXTENDS Integers, Sequences, FiniteSets, TLC

\* ------------------------------------------------------------------------
\* Bounds of the model
\* ------------------------------------------------------------------------
MaxAttempts == 3
MaxQuestions == 3
MaxPerType == 1
MaxExamLen == 3
RngMod == 4
MaxOtherDraws == 2
MaxAnswers == 2
MaxOption == 2
MaxChoiceLen == 2
MaxIndex == 5
MaxSelected == 3
MaxLines == 4
MaxSections == 3
MaxTopK == 2
MaxCount == 9

\* ------------------------------------------------------------------------
\* Characters and texts
\* ------------------------------------------------------------------------
LowerLetters == <<"a","b","c","d","e","f","g","h","i","j","k","l","m",
                  "n","o","p","q","r","s","t","u","v","w","x","y","z">>

UpperLetters == <<"A","B","C","D","E","F","G","H","I","J","K","L","M",
                  "N","O","P","Q","R","S","T","U","V","W","X","Y","Z">>

DigitChars == <<"0","1","2","3","4","5","6","7","8","9">>

Range(s) == {s[i] : i \in DOMAIN s}

\* str.lower() on one character
LowerChar(ch) ==
    IF \E i \in DOMAIN UpperLetters : UpperLetters[i] = ch
    THEN LowerLetters[CHOOSE i \in DOMAIN UpperLetters : UpperLetters[i] = ch]
    ELSE ch

\* str.upper() on one character
UpperChar(ch) ==
    IF \E i \in DOMAIN LowerLetters : LowerLetters[i] = ch
    THEN UpperLetters[CHOOSE i \in DOMAIN LowerLetters : LowerLetters[i] = ch]
    ELSE ch

Lower(text) == [i \in DOMAIN text |-> LowerChar(text[i])]

Upper(text) == [i \in DOMAIN text |-> UpperChar(text[i])]

\* the character class [A-Za-z0-9] of the term regex (Cyrillic letters are
\* outside the alphabet of the model)
TermChars == Range(LowerLetters) \cup Range(UpperLetters) \cup Range(DigitChars)

IsTermChar(ch) == ch \in TermChars

IsSpaceChar(ch) == ch \in {" ", "\n", "\t", "\r"}

\* str(n) for n >= 0
RECURSIVE Str(_)
Str(n) == IF n < 10 THEN <<DigitChars[n + 1]>>
          ELSE Str(n \div 10) \o <<DigitChars[(n % 10) + 1]>>

\* format(n, "03d") for n >= 0
Pad3(n) == LET s == Str(n)
           IN  IF Len(s) >= 3 THEN s
               ELSE [i \in 1..(3 - Len(s)) |-> "0"] \o s

\* str.strip()
Strip(text) ==
    LET keep == {k \in DOMAIN text : ~IsSpaceChar(text[k])}
    IN  IF keep = {} THEN <<>>
        ELSE SubSeq(text, CHOOSE a \in keep : \A k \in keep : a <= k,
                          CHOOSE b \in keep : \A k \in keep : b >= k)

\* Optional values
None == <<>>
Some(x) == <<x>>
IsNone(o) == o = <<>>
Val(o) == o[1]

\* ------------------------------------------------------------------------
\* Term extraction shared by the validator and the retriever
\* ------------------------------------------------------------------------
MinTermLen == 4

\* positions where a run of term characters starts / ends
RunStarts(mask) == {a \in DOMAIN mask : mask[a] /\ (a = 1 \/ ~mask[a - 1])}

RunEnds(mask) == {b \in DOMAIN mask : mask[b] /\ (b = Len(mask) \/ ~mask[b + 1])}

\* the end of the run that starts at a
RunEnd(ends, a) == CHOOSE b \in ends : b >= a /\ \A e \in ends : e >= a => b <= e

\* re.findall(r"[A-Za-z0-9]{4,}", text): every maximal run of term characters
\* that is at least MinTermLen long (the quantifier is greedy).  The bound
\* variables make each intermediate value be computed once.
FindTerms(text) ==
    UNION { {SubSeq(text, a, RunEnd(p[2], a)) :
                a \in {x \in p[1] : RunEnd(p[2], x) - x + 1 >= MinTermLen}} :
            p \in { <<RunStarts(mask), RunEnds(mask)>> :
                    mask \in {[k \in DOMAIN text |-> IsTermChar(text[k])]} } }

\* QuestionValidator._extract_terms
ExtractTerms(text) == UNION {FindTerms(lowered) : lowered \in {Lower(t) : t \in {text}}}

\* QuestionValidator._overlap_terms
OverlapTerms(text, doc_terms) == Cardinality(ExtractTerms(text) \cap doc_terms)

\* ------------------------------------------------------------------------
\* Data model
\* ------------------------------------------------------------------------
\* ids that start at q-000
QuestionIdZeroBased(question_num) == <<"q", "-">> \o Pad3(question_num)

\* f"q-{question_num + 1:03d}"
QuestionId(question_num) == <<"q", "-">> \o Pad3(question_num + 1)

ChoiceTypes == {"single_choice", "multiple_choice"}

\* Python truthiness of an Optional[str] / Optional[list]
Truthy(o) == ~IsNone(o) /\ Val(o) # <<>>

\* round(num / den, 3) in thousandths, ties to even (den > 0)
Round3(num, den) ==
    LET q == (1000 * num) \div den
        r == (1000 * num) % den
    IN  IF 2 * r > den THEN q + 1
        ELSE IF 2 * r < den THEN q
        ELSE IF q % 2 = 0 THEN q ELSE q + 1

\* ------------------------------------------------------------------------
\* Exam validator
\* ------------------------------------------------------------------------
Issue(kind, arg) == [kind |-> kind, arg |-> arg]

\* the issues of one source reference (validator.py 47-50)
RefIssues(ref, qid, doc_len) ==
    (IF ref.start < 0 \/ ref.end < 0 \/ ref.start > ref.end
     THEN <<Issue("invalid_span", qid)>> ELSE <<>>)
    \o
    (IF doc_len # 0 /\ ref.end > doc_len
     THEN <<Issue("out_of_bounds", qid)>> ELSE <<>>)

\* the loop over q.source_refs (validator.py 44-50): the issues it appends
RECURSIVE RefsIssues(_, _, _, _)
RefsIssues(refs, i, qid, doc_len) ==
    IF i > Len(refs) THEN <<>>
    ELSE RefIssues(refs[i], qid, doc_len) \o RefsIssues(refs, i + 1, qid, doc_len)

\* the headings one question adds to referenced_headings (validator.py 45-46)
HeadingsOf(q) ==
    {Val(q.source_refs[k].heading) :
        k \in {j \in DOMAIN q.source_refs : Truthy(q.source_refs[j].heading)}}

\* referenced_headings at the end of the loop
ReferencedHeadings(questions) == UNION {HeadingsOf(questions[i]) : i \in DOMAIN questions}

\* len(q.options) is evaluated for the first index of q.correct: a TypeError
\* when options is None
CorrectCheckRaises(q) ==
    /\ q.type \in ChoiceTypes
    /\ Truthy(q.correct)
    /\ IsNone(q.options)

InvalidCorrect(q) ==
    \/ ~Truthy(q.correct)
    \/ \E k \in DOMAIN Val(q.correct) :
          Val(q.correct)[k] >= Len(Val(q.options)) \/ Val(q.correct)[k] < 0

\* type-specific checks (validator.py 52-62)
TypeIssues(q) ==
    IF q.type \in ChoiceTypes
    THEN (IF ~Truthy(q.options) \/ Len(Val(q.options)) < 3
          THEN <<Issue("insufficient_options", q.id)>> ELSE <<>>)
         \o
         (IF InvalidCorrect(q)
          THEN <<Issue("invalid_correct", q.id)>> ELSE <<>>)
    ELSE IF q.type = "open_ended"
    THEN (IF ~Truthy(q.reference_answer) \/ Strip(Val(q.reference_answer)) = <<>>
          THEN <<Issue("missing_reference_answer", q.id)>> ELSE <<>>)
         \o
         (IF ~Truthy(q.rubric) \/ Len(Val(q.rubric)) < 2
          THEN <<Issue("missing_rubric", q.id)>> ELSE <<>>)
    ELSE <<>>

\* f"{q.stem} {q.reference_answer or ''}"
QuestionText(q) ==
    q.stem \o <<" ">> \o (IF Truthy(q.reference_answer) THEN Val(q.reference_answer) ELSE <<>>)

\* the grounding heuristic flags the question (validator.py 65-68)
GroundedIssue(q, doc_terms) == OverlapTerms(QuestionText(q), doc_terms) < 1

\* the stems seen before question i (validator.py 36-38)
StemsBefore(questions, i) == {questions[j].stem : j \in 1..(i - 1)}

\* one iteration of the loop over exam.questions (validator.py 34-70): the
\* issues it appends, in order
QuestionIssues(questions, i, doc_len, doc_terms) ==
    LET q == questions[i]
    IN  (IF q.stem \in StemsBefore(questions, i)
         THEN <<Issue("duplicate_stem",
                      SubSeq(q.stem, 1, IF Len(q.stem) < 50 THEN Len(q.stem) ELSE 50))>>
         ELSE <<>>)
        \o
        (IF q.source_refs = <<>>
         THEN <<Issue("missing_source_refs", q.id)>>
         ELSE RefsIssues(q.source_refs, 1, q.id, doc_len))
        \o TypeIssues(q)
        \o
        (IF GroundedIssue(q, doc_terms)
         THEN <<Issue("ungrounded", q.id)>> ELSE <<>>)

RECURSIVE ValidateLoop(_, _, _, _)
ValidateLoop(questions, i, doc_len, doc_terms) ==
    IF i > Len(questions) THEN <<>>
    ELSE QuestionIssues(questions, i, doc_len, doc_terms)
         \o ValidateLoop(questions, i + 1, doc_len, doc_terms)

\* grounded_count at the end of the loop (validator.py 69-70)
GroundedCount(questions, doc_terms) ==
    Cardinality({i \in DOMAIN questions : ~GroundedIssue(questions[i], doc_terms)})

\* grounding issues taken as warnings that do not gate validity
ValidFlagStructuralOnly(issues) ==
    \A n \in DOMAIN issues : issues[n].kind = "ungrounded"

\* valid, as validate_exam computes it from the issues it collected
ValidFlag(issues) == Len(issues) = 0

\* QuestionValidator.validate_exam; ratios are in thousandths.  The call
\* raises when the correct-index check meets options = None.
ValidateExam(questions, document) ==
    IF \E i \in DOMAIN questions : CorrectCheckRaises(questions[i])
    THEN [raised |-> TRUE, valid |-> FALSE, issues |-> <<>>,
          grounded_ratio |-> 0, section_coverage |-> 0]
    ELSE
    CHOOSE result \in
      { [raised |-> FALSE,
         valid |-> ValidFlag(issues),
         issues |-> issues,
         grounded_ratio |-> IF questions # <<>>
                            THEN Round3(GroundedCount(questions, doc_terms), Len(questions))
                            ELSE 0,
         section_coverage |->
            LET section_headings ==
                    {document.sections[k].heading : k \in
                       {j \in DOMAIN document.sections : document.sections[j].heading # <<>>}}
            IN  IF section_headings # {}
                THEN Round3(Cardinality(ReferencedHeadings(questions) \cap section_headings),
                            Cardinality(section_headings))
                ELSE 0] :
        doc_terms \in {ExtractTerms(document.source_text)},
        issues \in {ValidateLoop(questions, 1, Len(document.source_text),
                                 ExtractTerms(document.source_text))} } : TRUE

\* ------------------------------------------------------------------------
\* Texts used as inputs (documents, capability answers, fixtures of the tests)
\* ------------------------------------------------------------------------
\* the texts of a small markdown document
SampleText ==
    [bio |-> <<"B","i","o">>,
     cell |-> <<"C","e","l","l">>,
     gene |-> <<"G","e","n","e">>,
     cell_wall |-> <<"C","e","l","l"," ","w","a","l","l">>,
     gene_code |-> <<"G","e","n","e"," ","c","o","d","e">>,
     bio_source |-> <<"#"," ","B","i","o","\n","#","#"," ","C","e","l","l","\n","C","e","l","l"," ","w","a","l","l","\n","#","#"," ","G","e","n","e","\n","G","e","n","e"," ","c","o","d","e">>]

\* the texts of the validator tests' documents and questions
FixtureText ==
    [doc |-> <<"D","o","c">>,
     topic |-> <<"T","o","p","i","c">>,
     val_source |-> <<"I","m","p","o","r","t","a","n","t"," ","f","a","c","t"," ","a","b","o","u","t"," ","a","l","p","h","a"," ","b","e","t","a",".">>,
     what_is_alpha |-> <<"W","h","a","t"," ","i","s"," ","a","l","p","h","a","?">>,
     explain_beta |-> <<"E","x","p","l","a","i","n"," ","b","e","t","a","?">>,
     beta_is_explained |-> <<"B","e","t","a"," ","i","s"," ","e","x","p","l","a","i","n","e","d",".">>,
     same |-> <<"S","a","m","e","?">>,
     why |-> <<"W","h","y","?">>,
     select_alpha |-> <<"S","e","l","e","c","t"," ","a","l","p","h","a">>,
     mentions_beta |-> <<"M","e","n","t","i","o","n","s"," ","b","e","t","a">>,
     is_concise |-> <<"I","s"," ","c","o","n","c","i","s","e">>,
     A |-> <<"A">>,
     B |-> <<"B">>,
     C |-> <<"C">>]

\* the literal texts of LocalLLMClient.generate_question
StubText ==
    [content |-> <<"c","o","n","t","e","n","t">>,
     based_on |-> <<" ","B","a","s","e","d"," ","o","n"," ">>,
     key_fact |-> <<","," ","w","h","a","t"," ","i","s"," ","t","h","e"," ","k","e","y"," ","f","a","c","t","?"," ","#">>,
     choose |-> <<" ","C","h","o","o","s","e"," ","t","h","e"," ","c","o","r","r","e","c","t"," ","o","p","t","i","o","n","?">>,
     explain_briefly |-> <<" ","E","x","p","l","a","i","n"," ","b","r","i","e","f","l","y","?">>,
     the_key_fact_from |-> <<"T","h","e"," ","k","e","y"," ","f","a","c","t"," ","f","r","o","m"," ","s","e","g","m","e","n","t"," ">>,
     fact |-> <<" ","f","a","c","t"," ">>,
     mentions_key |-> <<"M","e","n","t","i","o","n","s"," ","t","h","e"," ","k","e","y"," ","f","a","c","t"," ","a","b","o","u","t"," ">>,
     relates |-> <<"R","e","l","a","t","e","s"," ","i","t"," ","t","o"," ","t","h","e"," ","s","o","u","r","c","e"," ","t","e","x","t">>,
     states |-> <<"S","t","a","t","e","s"," ","i","n"," ","1","-","2"," ","s","e","n","t","e","n","c","e","s">>,
     chooses |-> <<"C","h","o","o","s","e","s"," ","c","o","r","r","e","c","t"," ","f","a","c","t">>,
     avoids |-> <<"A","v","o","i","d","s"," ","u","n","r","e","l","a","t","e","d"," ","o","p","t","i","o","n","s">>,
     matches |-> <<"M","a","t","c","h","e","s"," ","s","o","u","r","c","e"," ","m","e","a","n","i","n","g">>]

\* ------------------------------------------------------------------------
\* Documents (ParsedDocument / ParsedSection values)
\* ------------------------------------------------------------------------
Section(heading, content, level, start_pos, end_pos) ==
    [heading |-> heading, content |-> content, level |-> level,
     start_pos |-> start_pos, end_pos |-> end_pos]

\* what parse returns for "# Bio\n## Cell\nCell wall\n## Gene\nGene code"
DocParsed ==
    [title |-> Some(SampleText.bio),
     sections |-> <<Section(SampleText.cell, SampleText.cell_wall, 2, 6, 24),
                    Section(SampleText.gene, SampleText.gene_code, 2, 24, 41)>>,
     source_text |-> SampleText.bio_source]

\* a document built by hand the way the generator's test fixture builds it:
\* section spans that are not offsets of the (abridged) source text
DocFixture ==
    [title |-> Some(SampleText.bio),
     sections |-> <<Section(SampleText.cell, SampleText.cell_wall, 2, 0, 100),
                    Section(SampleText.gene, SampleText.gene_code, 2, 101, 200)>>,
     source_text |-> SampleText.bio_source]

\* the validator tests' make_doc()
DocTopic ==
    [title |-> Some(FixtureText.doc),
     sections |-> <<Section(FixtureText.topic, FixtureText.val_source, 2, 0, 50)>>,
     source_text |-> FixtureText.val_source]

\* ParsedDocument(title=None, sections=[], source_text="")
DocEmpty == [title |-> None, sections |-> <<>>, source_text |-> <<>>]

Documents == {DocParsed, DocFixture, DocEmpty}

\* ------------------------------------------------------------------------
\* The process-wide random source (module random)
\* ------------------------------------------------------------------------
RngStates == 0..(RngMod - 1)

\* the generator's next state: a fixed deterministic step
RngNext(s) == (5 * s + 3) % RngMod

\* random.seed(n)
SeedState(n) == (3 * n + 1) % RngMod

\* random._randbelow(n): [value, state after the draw]
RandBelow(s, n) == [value |-> RngNext(s) % n, rng |-> RngNext(s)]

\* random.choice(seq): [value, state after the draw]
RandomChoice(s, seq) ==
    LET d == RandBelow(s, Len(seq))
    IN  [value |-> seq[d.value + 1], rng |-> d.rng]

\* random.sample(population, k) for a small population: the pool algorithm
RECURSIVE SampleLoop(_, _, _, _, _)
SampleLoop(s, pool, n, k, i) ==
    IF i >= k THEN [value |-> <<>>, rng |-> s]
    ELSE LET d == RandBelow(s, n - i)
             picked == pool[d.value + 1]
             pool2 == [pool EXCEPT ![d.value + 1] = pool[n - i]]
             rest == SampleLoop(d.rng, pool2, n, k, i + 1)
         IN  [value |-> <<picked>> \o rest.value, rng |-> rest.rng]

RandomSample(s, population, k) == SampleLoop(s, population, Len(population), k, 0)

\* ------------------------------------------------------------------------
\* Section retriever
\* ------------------------------------------------------------------------
Stopwords == {<<"q","u","e","s","t","i","o","n">>, <<"a","n","s","w","e","r">>, <<"w","h","i","c","h">>,
              <<"e","x","p","l","a","i","n">>, <<"s","e","l","e","c","t">>,
              <<"a","b","o","u","t">>, <<"w","h","a","t">>, <<"c","h","o","o","s","e">>}

\* RAGRetriever._extract_terms
RetrieverTerms(text) == {term \in ExtractTerms(text) : term \notin Stopwords}

\* RAGRetriever._score_section
ScoreSection(query, section) ==
    Cardinality(RetrieverTerms(query) \cap RetrieverTerms(section.content))

\* a sort that puts the later of two equally scored sections first
RankedBeforeLaterFirst(scores, a, b) ==
    scores[a] > scores[b] \/ (scores[a] = scores[b] /\ a > b)

\* scored.sort(key=(score, -idx), reverse=True): is the entry at index a
\* ordered before the entry at index b
RankedBefore(scores, a, b) == scores[a] > scores[b] \/ (scores[a] = scores[b] /\ a < b)

\* the position of index a in the sorted list
RankOf(scores, a) == 1 + Cardinality({b \in DOMAIN scores : RankedBefore(scores, b, a)})

\* indices of the sections in sorted order
RankIndices(scores) ==
    [r \in DOMAIN scores |-> CHOOSE a \in DOMAIN scores : RankOf(scores, a) = r]

\* the sections at the first top_k positions of the sorted list
TopRanked(sections, scores, top_k) ==
    [r \in 1..top_k |-> sections[RankIndices(scores)[r]]]

\* RAGRetriever.retrieve_relevant_sections: [value, state of the random source]
RetrieveRelevantSections(s, document, query, top_k) ==
    IF Len(document.sections) <= top_k
    THEN [value |-> document.sections, rng |-> s]
    ELSE IF query # <<>>
    THEN CHOOSE r \in
           { [value |-> TopRanked(document.sections, scores, top_k), rng |-> s] :
             scores \in {[i \in DOMAIN document.sections |->
                            ScoreSection(query, document.sections[i])]} } : TRUE
    ELSE RandomSample(s, document.sections, top_k)

\* ------------------------------------------------------------------------
\* The content-generation capability
\* ------------------------------------------------------------------------
\* a capability answer: a dict, as the set of its keys and their values
Dict(keys, stem, options, correct, reference_answer, rubric) ==
    [keys |-> keys, stem |-> stem, options |-> options, correct |-> correct,
     reference_answer |-> reference_answer, rubric |-> rubric]

Returned(dict) == [raises |-> FALSE, result |-> dict]

Raised == [raises |-> TRUE, result |-> Dict({}, <<>>, <<>>, <<>>, <<>>, <<>>)]

Difficulties == <<"easy", "medium", "hard">>

DifficultyText(d) ==
    CASE d = "easy"   -> <<"e","a","s","y">>
      [] d = "medium" -> <<"m","e","d","i","u","m">>
      [] d = "hard"   -> <<"h","a","r","d">>

CharCode(ch) ==
    IF \E i \in DOMAIN LowerLetters : LowerLetters[i] = ch
    THEN CHOOSE i \in DOMAIN LowerLetters : LowerLetters[i] = ch
    ELSE IF \E i \in DOMAIN UpperLetters : UpperLetters[i] = ch
    THEN 26 + (CHOOSE i \in DOMAIN UpperLetters : UpperLetters[i] = ch)
    ELSE 53

\* int(md5(content).hexdigest(), 16) % 1000: a fixed function of the content
\* (a positional checksum stands for the digest)
RECURSIVE HashUpTo(_, _)
HashUpTo(content, k) ==
    IF k = 0 THEN 0
    ELSE (HashUpTo(content, k - 1) + k * CharCode(content[k])) % 1000

ContentHash(content) == HashUpTo(content, Len(content))

\* content.split()[0], for content that is not all whitespace
FirstWord(content) ==
    LET first == CHOOSE a \in DOMAIN content :
                    ~IsSpaceChar(content[a]) /\ \A k \in 1..(a - 1) : IsSpaceChar(content[k])
        stops == {k \in DOMAIN content : k > first /\ IsSpaceChar(content[k])}
    IN  IF stops = {} THEN SubSeq(content, first, Len(content))
        ELSE SubSeq(content, first, (CHOOSE b \in stops : \A k \in stops : b <= k) - 1)

\* LocalLLMClient.generate_question, counter being self._counter after the
\* increment
LocalGenerateQuestion(content, question_type, difficulty, language, prompt_variant, counter) ==
    LET seed == ContentHash(content)
        keyword == IF content # <<>> THEN FirstWord(content) ELSE StubText.content
        variant_tag == IF prompt_variant # <<>>
                       THEN <<"[">> \o prompt_variant \o <<"]">> ELSE <<>>
        stem == <<"[">> \o Upper(language) \o <<"]", "[">> \o DifficultyText(difficulty)
                \o <<"]">> \o variant_tag \o StubText.based_on \o keyword \o <<" ">>
                \o Str(seed) \o StubText.key_fact \o Str(counter)
        option(k, m) == keyword \o StubText.fact \o Str((seed + k) % m)
    IN  IF question_type = "open_ended"
        THEN Dict({"stem", "reference_answer", "rubric"},
                  stem \o StubText.explain_briefly, <<>>, <<>>,
                  StubText.the_key_fact_from \o keyword \o <<" ">> \o Str(seed) \o <<".">>,
                  <<StubText.mentions_key \o keyword, StubText.relates, StubText.states>>)
        ELSE Dict({"stem", "options", "correct", "rubric"},
                  stem \o StubText.choose,
                  <<option(0, 4), option(1, 5), option(2, 6), option(3, 7)>>,
                  IF question_type = "single_choice" THEN <<0>> ELSE <<0, 1>>,
                  <<>>,
                  <<StubText.chooses, StubText.avoids, StubText.matches>>)

\* a well-formed answer of a remote provider
RemoteGood(content, question_type) ==
    LET stem == <<"A","b","o","u","t"," ">> \o content \o <<"?">>
    IN  IF question_type = "open_ended"
        THEN Dict({"stem", "reference_answer", "rubric"}, stem, <<>>, <<>>,
                  content, <<FixtureText.mentions_beta, FixtureText.is_concise>>)
        ELSE Dict({"stem", "options", "correct"}, stem,
                  <<FixtureText.A, FixtureText.B, FixtureText.C>>,
                  IF question_type = "single_choice" THEN <<0>> ELSE <<0, 1>>,
                  <<>>, <<>>)

\* what a remote provider (OpenAI, Yandex) may answer: the provider is opaque,
\* so every one of these can happen on every call
RemoteOutcomes(content, question_type) ==
    LET good == RemoteGood(content, question_type)
    IN  { Raised,
          Returned(good),
          \* wording that shares no term with the document
          Returned([good EXCEPT !.stem = FixtureText.same,
                                !.reference_answer = IF question_type = "open_ended"
                                                     THEN FixtureText.why ELSE <<>>]),
          \* a field the question type requires is missing
          Returned([good EXCEPT !.keys = @ \ (IF question_type = "open_ended"
                                               THEN {"rubric"} ELSE {"options"})]),
          \* two correct indices, whatever the type
          Returned([good EXCEPT !.keys = @ \cup {"correct"}, !.correct = <<0, 1>>]) }

\* llm_client.generate_question(...) for the client of this run
CapabilityOutcomes(llm, content, question_type, difficulty, language, prompt_variant, counter) ==
    IF llm = "local"
    THEN {Returned(LocalGenerateQuestion(content, question_type, difficulty,
                                         language, prompt_variant, counter))}
    ELSE RemoteOutcomes(content, question_type)

\* ------------------------------------------------------------------------
\* Question construction (schemas.Question, SourceReference, QuestionMeta)
\* ------------------------------------------------------------------------
SourceReference(file, heading, start, end) ==
    [file |-> file, heading |-> heading, start |-> start, end |-> end]

\* SourceReference field constraints (ge=0, end >= start)
SourceReferenceOk(ref) == ref.start >= 0 /\ ref.end >= 0 /\ ~(ref.end < ref.start)

\* Question.validate_options / validate_correct_indices /
\* validate_reference_answer and the stem's min_length, for the arguments the
\* generator passes
QuestionSchemaOk(q) ==
    /\ Len(q.stem) >= 1
    /\ q.type \in ChoiceTypes =>
         /\ ~IsNone(q.options)
         /\ \A k \in DOMAIN Val(q.options) : Strip(Val(q.options)[k]) # <<>>
         /\ Len(Val(q.options)) >= 2
         /\ Len(Val(q.options)) <= 10
         /\ Truthy(q.correct)
         /\ q.type = "single_choice" => Len(Val(q.correct)) = 1
         /\ \A k \in DOMAIN Val(q.correct) :
               Val(q.correct)[k] >= 0 /\ Val(q.correct)[k] < Len(Val(q.options))
    /\ q.type = "open_ended" =>
         /\ Truthy(q.reference_answer)
         /\ Strip(Val(q.reference_answer)) # <<>>

\* Exam(...): min_length=1 and validate_unique_question_ids
ExamSchemaOk(questions) ==
    /\ Len(questions) >= 1
    /\ \A a, b \in DOMAIN questions : a # b => questions[a].id # questions[b].id

\* ------------------------------------------------------------------------
\* QuestionGenerator._generate_single_question, after the random draws
\* ------------------------------------------------------------------------
NoQuestion ==
    [id |-> <<>>, type |-> "none", stem |-> <<>>, options |-> None, correct |-> None,
     reference_answer |-> None, rubric |-> None, source_refs |-> <<>>,
     meta |-> [difficulty |-> "none", tags |-> <<>>]]

\* _create_fallback_question (generator.py 292-324) used in the except clause
FallbackQuestion(section, question_type, question_num, difficulty) ==
    LET option == <<"O","p","t","i","o","n"," ">>
    IN
    [id |-> QuestionId(question_num), type |-> question_type,
     stem |-> <<"Q","u","e","s","t","i","o","n"," ","a","b","o","u","t",":"," ">>
              \o section.heading,
     options |-> Some(<<option \o <<"A">>, option \o <<"B">>,
                        option \o <<"C">>, option \o <<"D">>>>),
     correct |-> Some(IF question_type = "single_choice" THEN <<0>> ELSE <<0, 1>>),
     reference_answer |-> None, rubric |-> None,
     source_refs |-> <<[file |-> <<"f","a","l","l","b","a","c","k">>,
                        heading |-> Some(section.heading),
                        start |-> section.start_pos, end |-> section.end_pos]>>,
     meta |-> [difficulty |-> difficulty, tags |-> <<section.heading>>]]

\* an except clause that substitutes the fallback question
OnGenerationFailureFallback(section, question_type, question_num, difficulty) ==
    [raised |-> FALSE,
     question |-> FallbackQuestion(section, question_type, question_num, difficulty)]

\* the except clause (generator.py 278-280): the failure is re-raised as
\* RuntimeError("Failed to generate question ...")
OnGenerationFailure(section, question_type, question_num, difficulty) ==
    [raised |-> TRUE, question |-> NoQuestion]

\* the body of the try block (generator.py 225-276)
BuildQuestion(document, section, question_type, question_num, actual_difficulty, outcome) ==
    LET d == outcome.result
        required == IF question_type = "open_ended"
                    THEN {"stem", "reference_answer", "rubric"}
                    ELSE {"stem", "options", "correct"}
        source_ref == SourceReference(
                        IF Truthy(document.title) THEN Val(document.title) ELSE <<"u","n","k","n","o","w","n">>,
                        Some(section.heading), section.start_pos, section.end_pos)
        meta == [difficulty |-> actual_difficulty,
                 tags |-> IF section.heading # <<>> THEN <<section.heading>> ELSE <<>>]
        question ==
            IF question_type = "open_ended"
            THEN [id |-> QuestionId(question_num), type |-> question_type,
                  stem |-> d.stem, options |-> None, correct |-> None,
                  reference_answer |-> Some(d.reference_answer),
                  rubric |-> Some(d.rubric),
                  source_refs |-> <<source_ref>>, meta |-> meta]
            ELSE [id |-> QuestionId(question_num), type |-> question_type,
                  stem |-> d.stem, options |-> Some(d.options),
                  correct |-> Some(d.correct), reference_answer |-> None,
                  rubric |-> IF "rubric" \in d.keys THEN Some(d.rubric) ELSE None,
                  source_refs |-> <<source_ref>>, meta |-> meta]
    IN  IF \/ outcome.raises
           \/ ~SourceReferenceOk(source_ref)
           \/ ~(required \subseteq d.keys)
           \/ ~QuestionSchemaOk(question)
        THEN OnGenerationFailure(section, question_type, question_num, actual_difficulty)
        ELSE [raised |-> FALSE, question |-> question]

\* ------------------------------------------------------------------------
\* State
\* ------------------------------------------------------------------------
VARIABLES
    rng,          \* state of the process-wide random source
    generator,    \* the QuestionGenerator object: its constructor arguments
    call,         \* per generate() call: its arguments, locals and position
    other_draws,  \* draws made by other code of the process between calls
    v_input,      \* validate_exam: the exam's questions and the document
    v_result,     \* validate_exam: what it returned
    grading,      \* per grade() call: its arguments, locals and position
    direct        \* a direct call of one function: its name, arguments, result

genVars == <<rng, generator, call, other_draws>>

valVars == <<v_input, v_result>>

otherVars == <<grading, direct>>

vars == <<rng, generator, call, other_draws, v_input, v_result, grading, direct>>

Calls == 1..4

\* ------------------------------------------------------------------------
\* Inputs of generate
\* ------------------------------------------------------------------------
ExamConfig(seed, single, multiple, open, difficulty, rag_enabled, rag_query) ==
    [seed |-> seed, single_choice_count |-> single, multiple_choice_count |-> multiple,
     open_ended_count |-> open, difficulty |-> difficulty, language |-> <<"e","n">>,
     prompt_variant |-> <<"d","e","f","a","u","l","t">>, rag_enabled |-> rag_enabled,
     rag_query |-> rag_query, rag_top_k |-> 1]

Seeds == {None, Some(1)}

\* resolved counts: each >= 0, at least one question
CountTriples ==
    {t \in (0..MaxPerType) \X (0..MaxPerType) \X (0..MaxPerType) :
        t[1] + t[2] + t[3] >= 1 /\ t[1] + t[2] + t[3] <= MaxQuestions}

\* difficulty and retrieval settings of a run
Modes == {<<"mixed", FALSE, None>>, <<"easy", FALSE, None>>,
          <<"easy", TRUE, None>>, <<"easy", TRUE, Some(SampleText.gene)>>}

Configs ==
    {ExamConfig(seed, t[1], t[2], t[3], m[1], m[2], m[3]) :
        seed \in Seeds, t \in CountTriples, m \in Modes}

Generators ==
    [max_validation_attempts : 1..MaxAttempts, strict_validation : BOOLEAN,
     llm : {"local", "remote"}]

NoSection == Section(<<>>, <<>>, 0, 0, 0)

NoResult == [kind |-> "none", questions |-> <<>>]

\* a generate() call that has not been made
IdleCall ==
    [pc |-> "idle", document |-> DocEmpty,
     config |-> ExamConfig(None, 1, 0, 0, "easy", FALSE, None),
     llm_counter |-> 0, sections_pool |-> None, attempt |-> -1,
     questions |-> <<>>, question_counter |-> 0, i |-> 0,
     question_type |-> "none", section |-> NoSection, actual_difficulty |-> "none",
     validation |-> None, result |-> NoResult,
     \* history of the call, for the properties
     rounds |-> 0, history |-> <<>>, seeded |-> 0, reseeded |-> 0,
     cap_log |-> <<>>, cap_failed |-> FALSE, candidates |-> <<>>]

\* generate(document, config, exam_id) is entered
NewCall(document, config) ==
    [IdleCall EXCEPT !.pc = "start", !.document = document, !.config = config]

NumQuestions(config) ==
    config.single_choice_count + config.multiple_choice_count + config.open_ended_count

SeedPinned(config) == ~IsNone(config.seed)

\* ------------------------------------------------------------------------
\* QuestionGenerator.generate, one action per step between two uses of the
\* shared random source
\* ------------------------------------------------------------------------
Finish(L, kind, questions) ==
    [L EXCEPT !.pc = "done", !.result = [kind |-> kind, questions |-> questions]]

\* return Exam(exam_id=..., questions=questions, config_used=config)
ReturnExam(L, questions) ==
    IF ExamSchemaOk(questions) THEN Finish(L, "exam", questions)
    ELSE Finish(L, "pydantic_error", <<>>)

\* the seed is never applied
SeedIfPinnedSkipped(config, current) == current

\* generator.py 63-64: if config.seed is not None: random.seed(config.seed)
SeedIfPinned(config, current) ==
    IF SeedPinned(config) THEN SeedState(Val(config.seed)) ELSE current

\* generator.py 59-64: the empty-document check and random.seed(config.seed)
Begin(c) ==
    LET L == call[c] IN
    /\ L.pc = "start"
    /\ IF L.document.sections = <<>>
       THEN /\ call' = [call EXCEPT ![c] = Finish(L, "value_error", <<>>)]
            /\ rng' = rng
       ELSE /\ call' = [call EXCEPT ![c] =
                          [L EXCEPT !.pc = "setup",
                                    !.seeded = IF SeedPinned(L.config) THEN @ + 1 ELSE @]]
            /\ rng' = SeedIfPinned(L.config, rng)
    /\ UNCHANGED <<generator, other_draws, valVars, otherVars>>

\* generator.py 83-99: the client of the run and the retrieved section pool
Setup(c) ==
    LET L == call[c]
        query == IF Truthy(L.config.rag_query) THEN Val(L.config.rag_query)
                 ELSE IF Truthy(L.document.title) THEN Val(L.document.title)
                 ELSE <<>>
    IN
    /\ L.pc = "setup"
    /\ IF L.config.rag_enabled
       THEN \E pool \in {RetrieveRelevantSections(rng, L.document, query, L.config.rag_top_k)} :
              /\ call' = [call EXCEPT ![c] =
                            [L EXCEPT !.pc = "for_attempt", !.llm_counter = 0,
                                      !.sections_pool = Some(pool.value)]]
              /\ rng' = pool.rng
       ELSE /\ call' = [call EXCEPT ![c] =
                          [L EXCEPT !.pc = "for_attempt", !.llm_counter = 0,
                                    !.sections_pool = None]]
            /\ rng' = rng
    /\ UNCHANGED <<generator, other_draws, valVars, otherVars>>

\* a limit that allows one round too many
AttemptLimitOffByOne == generator.max_validation_attempts + 1

\* self.max_validation_attempts, as the loop reads it
AttemptLimit == generator.max_validation_attempts

\* for attempt in range(self.max_validation_attempts): is there a next value
LoopContinues(attempt, max_validation_attempts) == attempt + 1 < max_validation_attempts

\* the head of the attempt loop without the two resets
ForAttemptKeepsQuestions(c) ==
    LET L == call[c] IN
    /\ L.pc = "for_attempt"
    /\ call' = [call EXCEPT ![c] =
                  IF LoopContinues(L.attempt, AttemptLimit)
                  THEN [L EXCEPT !.pc = "for_single", !.attempt = @ + 1, !.i = 0,
                                 !.rounds = @ + 1, !.cap_log = <<>>]
                  ELSE [L EXCEPT !.pc = "after_loop"]]
    /\ UNCHANGED <<rng, generator, other_draws, valVars, otherVars>>

\* generator.py 101-103: the head of the attempt loop
ForAttempt(c) ==
    LET L == call[c] IN
    /\ L.pc = "for_attempt"
    /\ call' = [call EXCEPT ![c] =
                  IF LoopContinues(L.attempt, AttemptLimit)
                  THEN [L EXCEPT !.pc = "for_single", !.attempt = @ + 1,
                                 !.questions = <<>>, !.question_counter = 0, !.i = 0,
                                 !.rounds = @ + 1, !.cap_log = <<>>]
                  ELSE [L EXCEPT !.pc = "after_loop"]]
    /\ UNCHANGED <<rng, generator, other_draws, valVars, otherVars>>

\* the head of one of the three per-type loops (generator.py 106, 120, 134)
TypeLoop(c, here, question_type, count, next) ==
    LET L == call[c] IN
    /\ L.pc = here
    /\ call' = [call EXCEPT ![c] =
                  IF L.i < count
                  THEN [L EXCEPT !.pc = "choose_section", !.question_type = question_type]
                  ELSE [L EXCEPT !.pc = next, !.i = 0]]
    /\ UNCHANGED <<rng, generator, other_draws, valVars, otherVars>>

ForSingle(c) ==
    TypeLoop(c, "for_single", "single_choice", call[c].config.single_choice_count, "for_multiple")

ForMultiple(c) ==
    TypeLoop(c, "for_multiple", "multiple_choice", call[c].config.multiple_choice_count, "for_open")

ForOpen(c) ==
    TypeLoop(c, "for_open", "open_ended", call[c].config.open_ended_count, "validate")

\* the loop a question of this type returns to
LoopOf(question_type) ==
    CASE question_type = "single_choice"   -> "for_single"
      [] question_type = "multiple_choice" -> "for_multiple"
      [] question_type = "open_ended"      -> "for_open"

\* generator.py 212-213: section = random.choice(sections_pool or sections)
ChooseSection(c) ==
    LET L == call[c]
        candidate_sections == IF Truthy(L.sections_pool) THEN Val(L.sections_pool)
                              ELSE L.document.sections
        d == RandomChoice(rng, candidate_sections)
    IN
    /\ L.pc = "choose_section"
    /\ call' = [call EXCEPT ![c] = [L EXCEPT !.pc = "choose_difficulty", !.section = d.value]]
    /\ rng' = d.rng
    /\ UNCHANGED <<generator, other_draws, valVars, otherVars>>

\* generator.py 216-219: the difficulty of the question
ChooseDifficulty(c) ==
    LET L == call[c]
        d == RandomChoice(rng, Difficulties)
    IN
    /\ L.pc = "choose_difficulty"
    /\ IF L.config.difficulty = "mixed"
       THEN /\ call' = [call EXCEPT ![c] = [L EXCEPT !.pc = "call_llm", !.actual_difficulty = d.value]]
            /\ rng' = d.rng
       ELSE /\ call' = [call EXCEPT ![c] = [L EXCEPT !.pc = "call_llm",
                                                      !.actual_difficulty = L.config.difficulty]]
            /\ rng' = rng
    /\ UNCHANGED <<generator, other_draws, valVars, otherVars>>

\* the answer counts as a capability failure for the question
CapabilityFailed(question_type, outcome) ==
    \/ outcome.raises
    \/ ~((IF question_type = "open_ended"
          THEN {"stem", "reference_answer", "rubric"}
          ELSE {"stem", "options", "correct"}) \subseteq outcome.result.keys)

\* generator.py 224-280 and the append of the calling loop
CallCapability(c) ==
    LET L == call[c] IN
    /\ L.pc = "call_llm"
    /\ \E outcome \in CapabilityOutcomes(generator.llm, L.section.content, L.question_type,
                                         L.actual_difficulty, L.config.language,
                                         L.config.prompt_variant, L.llm_counter + 1) :
       \E built \in {BuildQuestion(L.document, L.section, L.question_type,
                                   L.question_counter, L.actual_difficulty, outcome)} :
          LET L1 == [L EXCEPT !.llm_counter = @ + 1,
                              !.cap_log = Append(@, L.question_type),
                              !.cap_failed = @ \/ CapabilityFailed(L.question_type, outcome)]
          IN  call' = [call EXCEPT ![c] =
                         IF built.raised
                         THEN Finish(L1, "generation_error", <<>>)
                         ELSE [L1 EXCEPT !.pc = LoopOf(L.question_type),
                                         !.questions = Append(@, built.question),
                                         !.question_counter = @ + 1,
                                         !.i = @ + 1]]
    /\ UNCHANGED <<rng, generator, other_draws, valVars, otherVars>>

\* a round is accepted only when it is valid, strict mode or not
AcceptRoundValidOnly(valid, strict_validation) == valid

\* generator.py 152: the round is accepted
AcceptRound(valid, strict_validation) == valid \/ ~strict_validation

\* retries that stop one round early
RetryRoundStopsEarly(config, attempt, max_validation_attempts) ==
    ~SeedPinned(config) /\ attempt < max_validation_attempts - 2

\* retries that ignore the pinned seed
RetryRoundIgnoresSeed(config, attempt, max_validation_attempts) ==
    attempt < max_validation_attempts - 1

\* generator.py 163: another round is run
RetryRound(config, attempt, max_validation_attempts) ==
    ~SeedPinned(config) /\ attempt < max_validation_attempts - 1

\* generator.py 147-172: validation of the round, then break, or
\* random.seed() and continue
Validate(c) ==
    LET L == call[c] IN
    /\ L.pc = "validate"
    /\ \E v \in {ValidateExam(L.questions, L.document)} :
         LET L1 == [L EXCEPT !.validation = Some(v), !.history = Append(@, v.valid),
                             !.candidates = L.questions]
         IN  IF ~ExamSchemaOk(L.questions)
             THEN /\ call' = [call EXCEPT ![c] = Finish(L, "pydantic_error", <<>>)]
                  /\ rng' = rng
             ELSE IF v.raised
             THEN /\ call' = [call EXCEPT ![c] = Finish(L, "type_error", <<>>)]
                  /\ rng' = rng
             ELSE IF AcceptRound(v.valid, generator.strict_validation)
             THEN /\ call' = [call EXCEPT ![c] = [L1 EXCEPT !.pc = "after_loop"]]
                  /\ rng' = rng
             ELSE IF RetryRound(L.config, L.attempt, AttemptLimit)
             THEN /\ call' = [call EXCEPT ![c] = [L1 EXCEPT !.pc = "for_attempt", !.reseeded = @ + 1]]
                  /\ rng' \in RngStates
             ELSE /\ call' = [call EXCEPT ![c] = [L1 EXCEPT !.pc = "after_loop"]]
                  /\ rng' = rng
    /\ UNCHANGED <<generator, other_draws, valVars, otherVars>>

\* the validation failure is raised for an invalid round in either mode
FailsValidationEitherMode(validation, strict_validation) ==
    ~IsNone(validation) /\ ~Val(validation).valid

\* generator.py 174: the validation failure is raised
FailsValidation(validation, strict_validation) ==
    ~IsNone(validation) /\ ~Val(validation).valid /\ strict_validation

\* generator.py 174-186 for a run without a pinned seed; with one, the
\* shuffle starts at the last index
AfterLoop(c) ==
    LET L == call[c] IN
    /\ L.pc = "after_loop"
    /\ call' = [call EXCEPT ![c] =
                  IF FailsValidation(L.validation, generator.strict_validation)
                  THEN Finish(L, "validation_error", <<>>)
                  ELSE IF SeedPinned(L.config)
                  THEN [L EXCEPT !.pc = "shuffle", !.i = Len(L.questions) - 1]
                  ELSE ReturnExam(L, L.questions)]
    /\ UNCHANGED <<rng, generator, other_draws, valVars, otherVars>>

\* x[i], x[j] = x[j], x[i] on 0-based indices
Swap(x, i, j) == [x EXCEPT ![i + 1] = x[j + 1], ![j + 1] = x[i + 1]]

\* generator.py 180: one iteration of random.shuffle(questions), i from
\* len-1 down to 1, then the return
ShuffleStep(c) ==
    LET L == call[c]
        d == RandBelow(rng, L.i + 1)
    IN
    /\ L.pc = "shuffle"
    /\ IF L.i >= 1
       THEN /\ call' = [call EXCEPT ![c] =
                          [L EXCEPT !.questions = Swap(@, L.i, d.value), !.i = @ - 1]]
            /\ rng' = d.rng
       ELSE /\ call' = [call EXCEPT ![c] = ReturnExam(L, L.questions)]
            /\ rng' = rng
    /\ UNCHANGED <<generator, other_draws, valVars, otherVars>>

\* one step of the generate() call c
GenerateStep(c) ==
    \/ Begin(c)
    \/ Setup(c)
    \/ ForAttempt(c)
    \/ ForSingle(c)
    \/ ForMultiple(c)
    \/ ForOpen(c)
    \/ ChooseSection(c)
    \/ ChooseDifficulty(c)
    \/ CallCapability(c)
    \/ Validate(c)
    \/ AfterLoop(c)
    \/ ShuffleStep(c)

\* ------------------------------------------------------------------------
\* One generate() call on one generator
\* ------------------------------------------------------------------------
NoValidation == [questions |-> <<>>, document |-> DocEmpty]

Init ==
    /\ rng \in RngStates
    /\ generator \in Generators
    /\ \E document \in Documents, config \in Configs :
          call = [c \in Calls |-> IF c = 1 THEN NewCall(document, config) ELSE IdleCall]
    /\ other_draws = 0
    /\ v_input = NoValidation
    /\ v_result = None
    /\ grading = <<>> /\ direct = None

Next == GenerateStep(1)

Spec == Init /\ [][Next]_vars

\* The runs checked for termination: every generator setting, every seed and
\* count triple, on the parsed document (and the document without sections),
\* with mixed difficulty, from one state of the random source (a re-seed
\* still draws any state).
LiveModes == {<<"mixed", FALSE, None>>}

LiveConfigs ==
    {ExamConfig(seed, t[1], t[2], t[3], m[1], m[2], m[3]) :
        seed \in Seeds, t \in CountTriples, m \in LiveModes}

LiveInit ==
    /\ rng = 0
    /\ generator \in Generators
    /\ \E document \in {DocParsed, DocEmpty}, config \in LiveConfigs :
          call = [c \in Calls |-> IF c = 1 THEN NewCall(document, config) ELSE IdleCall]
    /\ other_draws = 0
    /\ v_input = NoValidation
    /\ v_result = None
    /\ grading = <<>> /\ direct = None

\* generate() is a sequential loop that the interpreter keeps running: a
\* step that can be taken is eventually taken
LiveSpec == LiveInit /\ [][Next]_vars /\ WF_vars(Next)

\* ------------------------------------------------------------------------
\* Two generate() calls one after the other, other code drawing from the
\* random source in between
\* ------------------------------------------------------------------------
PinnedConfigs == {config \in Configs : SeedPinned(config)}

\* generators whose capability is the deterministic local client
LocalGenerators == {g \in Generators : g.llm = "local"}

SeqInit ==
    /\ rng \in RngStates
    /\ generator \in LocalGenerators
    /\ \E document \in {DocParsed, DocFixture}, config \in PinnedConfigs :
          call = [c \in Calls |-> IF c \in {1, 2} THEN NewCall(document, config)
                                  ELSE IdleCall]
    /\ other_draws = 0
    /\ v_input = NoValidation
    /\ v_result = None
    /\ grading = <<>> /\ direct = None

\* some other code of the process uses module random between the two calls
OtherDraw ==
    /\ call[1].pc = "done"
    /\ call[2].pc = "start"
    /\ other_draws < MaxOtherDraws
    /\ other_draws' = other_draws + 1
    /\ rng' \in RngStates
    /\ UNCHANGED <<generator, call, valVars, otherVars>>

FirstCall == call[1].pc # "done" /\ GenerateStep(1)

SecondCall == call[1].pc = "done" /\ GenerateStep(2)

SeqNext == FirstCall \/ OtherDraw \/ SecondCall

SpecSeq == SeqInit /\ [][SeqNext]_vars

\* ------------------------------------------------------------------------
\* Two generate() calls on two threads, after each was run alone
\* ------------------------------------------------------------------------
ConcSeeds == {Some(1), Some(2)}

ConcConfigs ==
    {ExamConfig(seed, t[1], t[2], t[3], "mixed", FALSE, None) :
        seed \in ConcSeeds, t \in {<<1, 0, 0>>, <<1, 1, 0>>}}

\* calls 1 and 2 are the two runs alone; calls 3 and 4 repeat them
\* concurrently, all on one generator without strict validation (the API's
\* module-level QuestionGenerator())
ConcInit ==
    /\ rng \in RngStates
    /\ generator \in {g \in LocalGenerators :
                         g.max_validation_attempts = MaxAttempts /\ ~g.strict_validation}
    /\ \E config_a \in ConcConfigs, config_b \in ConcConfigs :
          call = [c \in Calls |-> NewCall(DocParsed, IF c \in {1, 3} THEN config_a
                                                     ELSE config_b)]
    /\ other_draws = 0
    /\ v_input = NoValidation
    /\ v_result = None
    /\ grading = <<>> /\ direct = None

AloneFirst == call[1].pc # "done" /\ GenerateStep(1)

AloneSecond == call[1].pc = "done" /\ call[2].pc # "done" /\ GenerateStep(2)

\* the interpreter switches threads between any two steps
Concurrent ==
    /\ call[1].pc = "done"
    /\ call[2].pc = "done"
    /\ \E c \in {3, 4} : GenerateStep(c)

ConcNext == AloneFirst \/ AloneSecond \/ Concurrent

SpecConc == ConcInit /\ [][ConcNext]_vars

\* ------------------------------------------------------------------------
\* validate_exam applied to exams built the way the validator's tests build them
\* ------------------------------------------------------------------------
\* QuestionMeta()
DefaultMeta == [difficulty |-> "medium", tags |-> <<>>]

\* make_choice_question(stem, qid), then q.source_refs = refs
ChoiceFixture(stem, qid, refs) ==
    [id |-> qid, type |-> "single_choice", stem |-> stem,
     options |-> Some(<<FixtureText.A, FixtureText.B, FixtureText.C>>),
     correct |-> Some(<<0>>), reference_answer |-> None,
     rubric |-> Some(<<FixtureText.select_alpha>>),
     source_refs |-> refs, meta |-> DefaultMeta]

\* make_open_question(qid), with the given stem
OpenFixture(stem, qid) ==
    [id |-> qid, type |-> "open_ended", stem |-> stem,
     options |-> None, correct |-> None,
     reference_answer |-> Some(FixtureText.beta_is_explained),
     rubric |-> Some(<<FixtureText.mentions_beta, FixtureText.is_concise>>),
     source_refs |-> <<SourceReference(FixtureText.doc, Some(FixtureText.topic), 0, 20)>>,
     meta |-> DefaultMeta]

\* the questions of the validator's tests, by name
FixtureQuestion(shape, qid) ==
    LET ref == SourceReference(FixtureText.doc, Some(FixtureText.topic), 0, 10)
        far == SourceReference(FixtureText.doc, Some(FixtureText.topic), 1000, 1010)
    IN  CASE shape = "choice"        -> ChoiceFixture(FixtureText.what_is_alpha, qid, <<ref>>)
          [] shape = "open"          -> OpenFixture(FixtureText.explain_beta, qid)
          [] shape = "same"          -> ChoiceFixture(FixtureText.same, qid, <<ref>>)
          [] shape = "no_refs"       -> ChoiceFixture(FixtureText.what_is_alpha, qid, <<>>)
          [] shape = "out_of_bounds" -> ChoiceFixture(FixtureText.what_is_alpha, qid, <<far>>)
          [] shape = "open_why"      -> OpenFixture(FixtureText.why, qid)

Shapes == {"choice", "open", "same", "no_refs", "out_of_bounds", "open_why"}

\* exams of 1..MaxExamLen questions with ids q-001, q-002, ...
FixtureExams ==
    UNION { { [k \in 1..n |-> FixtureQuestion(shapes[k], QuestionId(k - 1))] :
                shapes \in [1..n -> Shapes] } : n \in 1..MaxExamLen }

ValInit ==
    /\ rng = 0
    /\ generator \in {g \in LocalGenerators : g.max_validation_attempts = MaxAttempts}
    /\ call = [c \in Calls |-> IdleCall]
    /\ other_draws = 0
    /\ \E questions \in FixtureExams, document \in {DocTopic, DocParsed, DocEmpty} :
          v_input = [questions |-> questions, document |-> document]
    /\ v_result = None
    /\ grading = <<>> /\ direct = None

\* result = validator.validate_exam(exam, doc)
ApplyValidate ==
    /\ v_result = None
    /\ v_result' = Some(ValidateExam(v_input.questions, v_input.document))
    /\ UNCHANGED <<genVars, v_input, otherVars>>

SpecVal == ValInit /\ [][ApplyValidate]_vars

\* ------------------------------------------------------------------------
\* Grader
\* ------------------------------------------------------------------------
\* round(scale * num / den) to the nearest integer, ties to even (den > 0):
\* round(x, 4) with scale 10000, round(x, 2) of a percentage with scale 100
RoundScaled(scale, num, den) ==
    LET q == (scale * num) \div den
        r == (scale * num) % den
    IN  IF 2 * r > den THEN q + 1
        ELSE IF 2 * r < den THEN q
        ELSE IF q % 2 = 0 THEN q ELSE q + 1

\* The exam of the grader tests, abridged to one question of each type:
\* the keys are the question ids, in exam order q1, q3, oe1.
GradedExam ==
    [q1  |-> [id |-> "q1", type |-> "single_choice", correct |-> Some(<<1>>),
              rubric |-> None],
     q3  |-> [id |-> "q3", type |-> "multiple_choice", correct |-> Some(<<0, 2>>),
              rubric |-> None],
     oe1 |-> [id |-> "oe1", type |-> "open_ended", correct |-> None,
              rubric |-> Some(<<"Factor 1", "Factor 2", "Factor 3">>)]]

\* What grade_open_ended can do: raise, or return a dict; score is in
\* hundred-thousandths (69996 is 0.69996, 120000 is 1.2).
GradingOutcomes ==
    {Raised}
    \cup { Returned([score |-> g[1], rubric_scores |-> g[2],
                     feedback |-> "Scored by local stub"]) :
             g \in { <<30000, <<0, 0, 0>>>>, <<69996, <<1, 1, 0>>>>,
                     <<70000, <<1, 1>>>>, <<100000, <<1, 1, 1>>>>,
                     <<120000, <<1, 1, 1>>>> } }

\* partial credit without the penalty for wrong selections
CalculatePartialCreditNoPenalty(expected, given) ==
    IF Range(expected) = {} THEN <<0, 1>>
    ELSE <<Cardinality(Range(expected) \cap Range(given)), Cardinality(Range(expected))>>

\* partial credit from the distance between right and wrong selections
CalculatePartialCreditDistance(expected, given) ==
    LET right == Cardinality(Range(expected) \cap Range(given))
        wrong == Cardinality(Range(given) \ Range(expected))
        total == Cardinality(Range(expected))
        distance == IF right >= wrong THEN right - wrong ELSE wrong - right
    IN  IF total = 0 THEN <<0, 1>>
        ELSE <<IF distance > total THEN total ELSE distance, total>>

\* Grader.calculate_partial_credit: the credit as <<numerator, denominator>>
CalculatePartialCredit(expected, given) ==
    LET expected_set == Range(expected)
        given_set == Range(given)
        correct_selected == Cardinality(expected_set \cap given_set)
        wrong_selected == Cardinality(given_set \ expected_set)
        total_expected == Cardinality(expected_set)
        credit == correct_selected - wrong_selected
    IN  IF total_expected = 0 THEN <<0, 1>>
        ELSE IF credit < 0 THEN <<0, total_expected>>
        ELSE IF credit > total_expected THEN <<total_expected, total_expected>>
        ELSE <<credit, total_expected>>

\* QuestionResult(**kwargs): the model declares seven fields and pydantic
\* ignores every other keyword; partial_credit is in ten-thousandths.
QuestionResult(kwargs) ==
    [f \in DOMAIN kwargs \cap {"question_id", "is_correct", "expected", "given",
                               "given_text", "partial_credit", "feedback"}
        |-> kwargs[f]]

\* sorted(list) of a list of ints
Sorted(list) ==
    CHOOSE s \in [DOMAIN list -> Range(list)] :
        /\ \A i, j \in DOMAIN s : i < j => s[i] <= s[j]
        /\ \A x \in Range(list) :
              Cardinality({i \in DOMAIN s : s[i] = x})
                  = Cardinality({i \in DOMAIN list : list[i] = x})

\* a choice question graded by comparing the sets of indices
GradeChoiceBySets(question, given, partial_credit) ==
    LET is_correct == /\ ~IsNone(given)
                      /\ Range(Val(given)) = Range(Val(question.correct))
    IN  [raises |-> FALSE, credit |-> IF is_correct THEN <<1, 1>> ELSE <<0, 1>>,
         result |-> QuestionResult(
            [question_id |-> question.id, is_correct |-> is_correct,
             expected |-> question.correct, given |-> given, given_text |-> None,
             partial_credit |-> IF is_correct THEN 10000 ELSE 0,
             feedback |-> None])]

\* Grader._grade_choice_question; given is answer.choice (an Optional list).
\* sorted(None) raises TypeError.  The local credit (before the rounding of
\* line 144) is handed back with the result.
GradeChoiceQuestion(question, given, partial_credit) ==
    LET expected == question.correct
        result(is_correct, credit) ==
            [raises |-> FALSE, credit |-> credit,
             result |-> QuestionResult(
                [question_id |-> question.id, is_correct |-> is_correct,
                 expected |-> expected, given |-> given, given_text |-> None,
                 partial_credit |-> RoundScaled(10000, credit[1], credit[2]),
                 feedback |-> None])]
    IN  IF question.type = "single_choice"
        THEN result(given = expected, IF given = expected THEN <<1, 1>> ELSE <<0, 1>>)
        ELSE IF IsNone(given) THEN Raised
        ELSE LET is_correct == Sorted(Val(expected)) = Sorted(Val(given))
             IN  result(is_correct,
                        IF is_correct THEN <<1, 1>>
                        ELSE IF partial_credit
                             THEN CalculatePartialCredit(Val(expected), Val(given))
                             ELSE <<0, 1>>)

\* [0 for _ in (question.rubric or [])]
ZeroScores(question) ==
    [k \in DOMAIN (IF Truthy(question.rubric) THEN Val(question.rubric) ELSE <<>>)
        |-> 0]

\* grader.py 214-230: except Exception, the result of a failed grading
OnGradingFailure(question, student_answer, detail) ==
    Returned(QuestionResult(
        [question_id |-> question.id, is_correct |-> FALSE,
         expected |-> None, given |-> None,
         given_text |-> student_answer.text_answer,
         partial_credit |-> 0, feedback |-> Some(<<"Grading failed: ", detail>>),
         rubric_scores |-> ZeroScores(question)]))

\* Grader._grade_open_ended_question; outcome is what the grading
\* capability does if it is invoked.  Everything after the no-answer case
\* runs inside the try, the construction of the result included
\* (partial_credit must be within 0.0 .. 1.0).  The metrics are computed
\* from lists of ints and passed to QuestionResult, which ignores them.
GradeOpenEndedQuestion(question, student_answer, outcome) ==
    LET score == outcome.result.score
        credit == RoundScaled(10000, score, 100000)
    IN  IF ~Truthy(student_answer.text_answer)
        THEN Returned(QuestionResult(
                [question_id |-> question.id, is_correct |-> FALSE,
                 expected |-> None, given |-> None, given_text |-> Some(<<>>),
                 partial_credit |-> 0, feedback |-> Some(<<"No answer provided.">>),
                 rubric_scores |-> ZeroScores(question)]))
        ELSE IF outcome.raises
        THEN OnGradingFailure(question, student_answer, "capability error")
        ELSE IF credit \notin 0..10000
        THEN OnGradingFailure(question, student_answer, "validation error")
        ELSE Returned(QuestionResult(
                [question_id |-> question.id, is_correct |-> score >= 70000,
                 expected |-> None, given |-> None,
                 given_text |-> student_answer.text_answer,
                 partial_credit |-> credit,
                 feedback |-> Some(<<outcome.result.feedback>>),
                 rubric_scores |-> outcome.result.rubric_scores]))

\* StudentAnswer values the model accepts: at least one of choice and
\* text_answer is present, and a text_answer without a choice is not blank.
StudentAnswers ==
    { a \in [question_id : DOMAIN GradedExam \cup {"invalid_id"},
             choice : {None} \cup { Some(l) : l \in UNION { [1..n -> 0..MaxOption] :
                                                            n \in 0..MaxChoiceLen } },
             text_answer : {None, Some(<<>>), Some(<<"o", "k">>)}] :
        IsNone(a.choice) => Truthy(a.text_answer) }

\* does grading this answer reach llm_client.grade_open_ended?
InvokesCapability(student_answer) ==
    /\ student_answer.question_id \in DOMAIN GradedExam
    /\ GradedExam[student_answer.question_id].type = "open_ended"
    /\ Truthy(student_answer.text_answer)

\* grade(exam, request, partial_credit) about to run; capability[i] is what
\* the grading capability does when it is invoked for the i-th answer, and
\* credits keeps the local credit of each _grade_choice_question call
NewGrade(request, partial_credit, capability) ==
    [request |-> request, partial_credit |-> partial_credit,
     capability |-> capability, pc |-> "start", results |-> <<>>, credits |-> <<>>,
     total_credit |-> 0, invoked |-> <<>>, error |-> None, response |-> None]

\* the input checks without the loop over the submitted ids
GradeCheckEmptyOnly(c) ==
    LET L == grading[c] IN
    /\ L.pc = "start"
    /\ grading' = [grading EXCEPT ![c] =
          IF L.request = <<>>
          THEN [L EXCEPT !.pc = "raised", !.error = Some("ValueError: no answers")]
          ELSE [L EXCEPT !.pc = "for_answer"]]
    /\ UNCHANGED <<genVars, valVars, direct>>

\* grader.py 47-62: the two input checks, before anything is graded
GradeCheck(c) ==
    LET L == grading[c] IN
    /\ L.pc = "start"
    /\ grading' = [grading EXCEPT ![c] =
          IF L.request = <<>>
          THEN [L EXCEPT !.pc = "raised", !.error = Some("ValueError: no answers")]
          ELSE IF \E i \in DOMAIN L.request :
                     L.request[i].question_id \notin DOMAIN GradedExam
          THEN [L EXCEPT !.pc = "raised", !.error = Some("ValueError: not found")]
          ELSE [L EXCEPT !.pc = "for_answer"]]
    /\ UNCHANGED <<genVars, valVars, direct>>

\* grader.py 64-78: one iteration of the loop over request.answers
GradeAnswer(c) ==
    LET L == grading[c]
        i == Len(L.results) + 1
    IN
    /\ L.pc = "for_answer"
    /\ i <= Len(L.request)
    /\ LET student_answer == L.request[i]
           question == GradedExam[student_answer.question_id]
       IN  IF student_answer.question_id \notin DOMAIN GradedExam
           THEN grading' = [grading EXCEPT ![c] =
                   [L EXCEPT !.pc = "raised", !.error = Some("KeyError")]]
           ELSE
           \E graded \in { IF question.type = "open_ended"
                           THEN GradeOpenEndedQuestion(question, student_answer,
                                                       L.capability[i])
                           ELSE GradeChoiceQuestion(question, student_answer.choice,
                                                    L.partial_credit) } :
             grading' = [grading EXCEPT ![c] =
                IF graded.raises
                THEN [L EXCEPT !.pc = "raised", !.error = Some("TypeError")]
                ELSE [L EXCEPT
                        !.results = Append(@, graded.result),
                        !.credits = Append(@, IF question.type = "open_ended"
                                              THEN None ELSE Some(graded.credit)),
                        !.total_credit = @ + graded.result.partial_credit,
                        !.invoked = IF InvokesCapability(student_answer)
                                    THEN Append(@, i) ELSE @]]
    /\ UNCHANGED <<genVars, valVars, direct>>

\* the summary with the share of correct answers as the percentage
GradeSummarizeByCorrect(c) ==
    LET L == grading[c]
        correct_count == Cardinality({k \in DOMAIN L.results : L.results[k].is_correct})
    IN
    /\ L.pc = "for_answer"
    /\ Len(L.results) = Len(L.request)
    /\ grading' = [grading EXCEPT ![c] =
          [L EXCEPT !.pc = "done",
                    !.response = Some([exam_id |-> "exam1",
                       summary |-> [total |-> Len(L.results), correct |-> correct_count,
                                    score_percent |->
                                        (10000 * correct_count) \div Len(L.results)],
                       per_question |-> L.results])]]
    /\ UNCHANGED <<genVars, valVars, direct>>

\* grader.py 80-95: the summary and the response.  total_credit is in
\* ten-thousandths and score_percent in hundredths of a percent; when the
\* percentage lies exactly between two hundredths, round() of the float
\* gives either of them.
GradeSummarize(c) ==
    LET L == grading[c]
        total_questions == Len(L.results)
        correct_count == Cardinality({k \in DOMAIN L.results : L.results[k].is_correct})
        q == L.total_credit \div total_questions
        r == L.total_credit % total_questions
    IN
    /\ L.pc = "for_answer"
    /\ Len(L.results) = Len(L.request)
    /\ \E score_percent \in IF 2 * r > total_questions THEN {q + 1}
                             ELSE IF 2 * r < total_questions THEN {q}
                             ELSE {q, q + 1} :
         grading' = [grading EXCEPT ![c] =
            [L EXCEPT !.pc = "done",
                      !.response = Some([exam_id |-> "exam1",
                                         summary |-> [total |-> total_questions,
                                                      correct |-> correct_count,
                                                      score_percent |-> score_percent],
                                         per_question |-> L.results])]]
    /\ UNCHANGED <<genVars, valVars, direct>>

\* the generator and the validator are not running
NoGeneration ==
    /\ rng = 0
    /\ generator = [max_validation_attempts |-> MaxAttempts,
                    strict_validation |-> FALSE, llm |-> "local"]
    /\ call = [c \in Calls |-> IdleCall]
    /\ other_draws = 0
    /\ v_input = NoValidation
    /\ v_result = None

\* a call of a function with its arguments, before it returns
Direct(function, args) == Some([function |-> function, args |-> args, result |-> None])

\* credit = grader.calculate_partial_credit(expected, given)
CalculateDirectly ==
    /\ ~IsNone(direct)
    /\ Val(direct).function = "calculate_partial_credit"
    /\ IsNone(Val(direct).result)
    /\ direct' = Some([Val(direct) EXCEPT !.result =
                         Some(CalculatePartialCredit(Val(direct).args[1],
                                                     Val(direct).args[2]))])
    /\ UNCHANGED <<genVars, valVars, grading>>

\* either one grade() call (up to MaxAnswers answers with index lists up to
\* MaxChoiceLen long, or one choice answer with a list of MaxSelected
\* indices), or one direct call of calculate_partial_credit as in the tests
\* of the partial credit calculation
GradeInit ==
    /\ NoGeneration
    /\ \/ /\ \E n \in 0..MaxAnswers :
              \E request \in [1..n -> StudentAnswers], partial_credit \in BOOLEAN,
                 capability \in [1..n -> GradingOutcomes] :
                 /\ \A i \in 1..n :
                       InvokesCapability(request[i]) \/ capability[i] = Raised
                 /\ grading = <<NewGrade(request, partial_credit, capability)>>
          /\ direct = None
       \/ /\ \E question_id \in {"q1", "q3"}, partial_credit \in BOOLEAN,
                 choice \in [1..MaxSelected -> 0..MaxOption] :
                 grading = <<NewGrade(<<[question_id |-> question_id,
                                         choice |-> Some(choice),
                                         text_answer |-> None]>>,
                                      partial_credit, <<Raised>>)>>
          /\ direct = None
       \/ /\ grading = <<[NewGrade(<<>>, TRUE, <<>>) EXCEPT !.pc = "idle"]>>
          /\ \E expected, given \in
                    UNION { [1..n -> 0..MaxIndex] : n \in 0..MaxSelected } :
                direct = Direct("calculate_partial_credit", <<expected, given>>)

SpecGrade ==
    GradeInit /\ [][GradeCheck(1) \/ GradeAnswer(1) \/ GradeSummarize(1)
                       \/ CalculateDirectly]_vars

\* ------------------------------------------------------------------------
\* ExamConfig construction
\* ------------------------------------------------------------------------
\* total_questions: Field(20, ge=1, le=100), and the limit of the count mode
MaxTotalQuestions == 100

\* ExamConfig(**kwargs): the field constraints, then sync_counts_and_ratios.
\* Counts are Optional ints and ratios are in hundredths.  The ratios are
\* floats in the code: a sum at distance exactly 0.01 from 1.0 passes or
\* fails the tolerance check with the rounding of the sum (0.34 + 0.67 is
\* rejected, 0.33999999999999997 + 0.6699999999999999 is accepted), and a
\* product total * ratio that is a whole number k comes out as k or just
\* below it (int(100 * 0.29) is 28).  The result is the set of outcomes.
ExamConfigOutcomes(kwargs) ==
    LET counts == <<kwargs.single_choice_count, kwargs.multiple_choice_count,
                    kwargs.open_ended_count>>
        ratios == <<kwargs.single_choice_ratio, kwargs.multiple_choice_ratio,
                    kwargs.open_ended_ratio>>
        count(k) == IF IsNone(counts[k]) THEN 0 ELSE Val(counts[k])
        total_count == count(1) + count(2) + count(3)
        total_ratio == ratios[1] + ratios[2] + ratios[3]
        int(k) == LET product == kwargs.total_questions * ratios[k] IN
                  IF product % 100 = 0 /\ product > 0
                  THEN {product \div 100, product \div 100 - 1}
                  ELSE {product \div 100}
        accepted(mode, single, multiple, open, total) ==
            [raises |-> FALSE, mode |-> mode, single_choice_count |-> single,
             multiple_choice_count |-> multiple, open_ended_count |-> open,
             total_questions |-> total]
        rejected == [raises |-> TRUE]
    IN  IF \/ \E k \in 1..3 : ~IsNone(counts[k]) /\ Val(counts[k]) < 0
           \/ kwargs.total_questions \notin 1..MaxTotalQuestions
           \/ \E k \in 1..3 : ratios[k] \notin 0..100
        THEN {rejected}
        ELSE IF \E k \in 1..3 : ~IsNone(counts[k])
        THEN IF total_count = 0 \/ total_count > MaxTotalQuestions THEN {rejected}
             ELSE {accepted("counts", count(1), count(2), count(3), total_count)}
        ELSE (IF total_ratio \in 99..101 THEN
                 { accepted("ratios", single, multiple,
                            kwargs.total_questions - single - multiple,
                            kwargs.total_questions) :
                     single \in int(1), multiple \in int(2) }
              ELSE {})
             \cup (IF total_ratio = 100 THEN {} ELSE {rejected})

\* config = ExamConfig(**kwargs)
Construct ==
    /\ ~IsNone(direct)
    /\ Val(direct).function = "ExamConfig"
    /\ IsNone(Val(direct).result)
    /\ \E outcome \in ExamConfigOutcomes(Val(direct).args) :
         direct' = Some([Val(direct) EXCEPT !.result = Some(outcome)])
    /\ UNCHANGED <<genVars, valVars, grading>>

\* ------------------------------------------------------------------------
\* Markdown parser
\* ------------------------------------------------------------------------
\* text.split(sep) for a separator of one character
Split(text, sep) ==
    LET breaks == {i \in DOMAIN text : text[i] = sep}
        break(k) == IF k = 0 THEN 0
                    ELSE IF k > Cardinality(breaks) THEN Len(text) + 1
                    ELSE CHOOSE b \in breaks : Cardinality({c \in breaks : c < b}) = k - 1
    IN  [k \in 1..(Cardinality(breaks) + 1) |->
            SubSeq(text, break(k - 1) + 1, break(k) - 1)]

\* self.md.parse(markdown_text): the block tokens of markdown-it for texts
\* whose lines are unindented ATX headings, paragraph text, "- " list items,
\* "~~~" fences and blank lines.  "\r\n" and "\r" are line ends as well as
\* "\n"; a token's map is its 0-based line range.
MdParse(markdown_text) ==
    LET src == markdown_text
        normalized ==
            SelectSeq([i \in DOMAIN src |->
                          IF src[i] = "\r" /\ (i = Len(src) \/ src[i + 1] # "\n")
                          THEN "\n" ELSE src[i]],
                      LAMBDA ch : ch # "\r")
        pieces == Split(normalized, "\n")
        lines == IF pieces[Len(pieces)] = <<>>
                 THEN SubSeq(pieces, 1, Len(pieces) - 1) ELSE pieces
        Token(type, tag, map, content) ==
            [type |-> type, tag |-> tag, map |-> map, content |-> content]
        hashes(line) ==
            CHOOSE n \in 0..Len(line) :
                /\ \A k \in 1..n : line[k] = "#"
                /\ n = Len(line) \/ line[n + 1] # "#"
        level(line) ==
            LET n == hashes(line)
            IN  IF n \in 1..6 /\ (n = Len(line) \/ line[n + 1] = " ") THEN n ELSE 0
        is_item(line) == Len(line) >= 2 /\ line[1] = "-" /\ line[2] = " "
        is_fence(line) == Len(line) >= 3 /\ SubSeq(line, 1, 3) = <<"~", "~", "~">>
        close_paragraph(st, n) ==
            IF st.mode # "paragraph" THEN st
            ELSE [st EXCEPT
                    !.mode = "top", !.in_item = FALSE,
                    !.tokens = @ \o
                       <<Token("paragraph_open", <<"p">>, Some(<<st.start, n>>), <<>>),
                         Token("inline", <<>>, Some(<<st.start, n>>), st.text),
                         Token("paragraph_close", <<"p">>, None, <<>>)>> \o
                       (IF st.in_item
                        THEN <<Token("list_item_close", <<"l", "i">>, None, <<>>)>>
                        ELSE <<>>)]
        close_list(st) ==
            IF ~st.in_list THEN st
            ELSE [st EXCEPT
                    !.in_list = FALSE,
                    !.tokens = @ \o <<Token("bullet_list_close", <<"u", "l">>, None, <<>>)>>]
        block(st, n, line) ==
            IF st.mode = "fence" THEN
                IF is_fence(line)
                THEN [st EXCEPT
                        !.mode = "top",
                        !.tokens = @ \o <<Token("fence", <<"c", "o", "d", "e">>,
                                                Some(<<st.start, n + 1>>), st.text)>>]
                ELSE [st EXCEPT !.text = @ \o line \o <<"\n">>]
            ELSE IF Strip(line) = <<>> THEN close_paragraph(st, n)
            ELSE IF level(line) > 0 THEN
                LET closed == close_list(close_paragraph(st, n))
                    tag == <<"h", DigitChars[level(line) + 1]>>
                IN  [closed EXCEPT
                        !.tokens = @ \o
                           <<Token("heading_open", tag, Some(<<n, n + 1>>), <<>>),
                             Token("inline", <<>>, Some(<<n, n + 1>>),
                                   Strip(SubSeq(line, level(line) + 1, Len(line)))),
                             Token("heading_close", tag, None, <<>>)>>]
            ELSE IF is_fence(line) THEN
                [close_list(close_paragraph(st, n)) EXCEPT
                    !.mode = "fence", !.start = n, !.text = <<>>]
            ELSE IF is_item(line) THEN
                LET closed == close_paragraph(st, n)
                IN  [closed EXCEPT
                        !.mode = "paragraph", !.in_item = TRUE, !.in_list = TRUE,
                        !.start = n, !.text = Strip(SubSeq(line, 3, Len(line))),
                        !.tokens = @ \o
                           (IF closed.in_list THEN <<>>
                            ELSE <<Token("bullet_list_open", <<"u", "l">>,
                                         Some(<<n, n + 1>>), <<>>)>>) \o
                           <<Token("list_item_open", <<"l", "i">>,
                                   Some(<<n, n + 1>>), <<>>)>>]
            ELSE IF st.mode = "paragraph" THEN
                [st EXCEPT !.text = @ \o <<"\n">> \o Strip(line)]
            ELSE [close_list(st) EXCEPT
                    !.mode = "paragraph", !.in_item = FALSE, !.start = n,
                    !.text = Strip(line)]
        RECURSIVE blocks(_, _)
        blocks(st, k) ==
            IF k <= Len(lines) THEN blocks(block(st, k - 1, lines[k]), k + 1)
            ELSE IF st.mode = "fence"
            THEN st.tokens \o <<Token("fence", <<"c", "o", "d", "e">>,
                                      Some(<<st.start, Len(lines)>>), st.text)>>
            ELSE close_list(close_paragraph(st, Len(lines))).tokens
    IN  blocks([mode |-> "top", in_item |-> FALSE, in_list |-> FALSE, start |-> 0,
                text |-> <<>>, tokens |-> <<>>], 1)

\* MarkdownParser._tokens_to_text
TokensToText(tokens, source_text) ==
    LET part(token) ==
            IF token.type = "inline" THEN token.content
            ELSE IF token.type \in {"paragraph_close", "list_item_close"} THEN <<"\n">>
            ELSE <<>>
        RECURSIVE join(_)
        join(k) == IF k = 0 THEN <<>> ELSE join(k - 1) \o part(tokens[k])
    IN  join(Len(tokens))

\* MarkdownParser._get_char_pos
GetCharPos(text, line_num) ==
    LET lines == Split(text, "\n")
        RECURSIVE pos(_)
        pos(i) == IF i = 0 THEN 0 ELSE pos(i - 1) + Len(lines[i]) + 1
    IN  pos(IF line_num < Len(lines) THEN line_num ELSE Len(lines))

\* MarkdownParser.parse; ParsedSection raises ValueError in __post_init__
\* when end_pos < start_pos or start_pos < 0, and parse lets it through
Parse(markdown_text) ==
    IF markdown_text = <<>> \/ Strip(markdown_text) = <<>>
    THEN Returned([title |-> None, sections |-> <<>>, source_text |-> markdown_text])
    ELSE
    LET tokens == MdParse(markdown_text)
        ParsedSection(st, end_pos) ==
            IF end_pos < st.heading_start_pos \/ st.heading_start_pos < 0
            THEN [st EXCEPT !.raises = TRUE]
            ELSE [st EXCEPT
                    !.sections = Append(@,
                        Section(Val(st.current_heading),
                                Strip(TokensToText(st.current_content_tokens,
                                                   markdown_text)),
                                Val(st.current_level), st.heading_start_pos, end_pos))]
        start(token) == IF IsNone(token.map) THEN 0 ELSE Val(token.map)[1]
        end(token) == IF IsNone(token.map) THEN Len(markdown_text) ELSE Val(token.map)[1]
        int(digit) == CHOOSE n \in 0..9 : DigitChars[n + 1] = digit
        for_token(st, i) ==
            LET token == tokens[i] IN
            IF token.type = "heading_open" THEN
                LET saved ==
                        IF IsNone(st.current_heading) THEN st
                        ELSE [ParsedSection(st, GetCharPos(markdown_text, end(token)))
                                EXCEPT !.current_content_tokens = <<>>]
                IN  [saved EXCEPT
                        !.current_level = Some(int(token.tag[2])),
                        !.heading_start_pos =
                            IF IsNone(token.map) THEN 0
                            ELSE GetCharPos(markdown_text, start(token))]
            ELSE IF token.type = "inline" /\ i > 1 /\ tokens[i - 1].type = "heading_open"
            THEN IF st.current_level = Some(1) /\ IsNone(st.title)
                 THEN [st EXCEPT !.title = Some(token.content),
                                 !.current_heading = None]
                 ELSE [st EXCEPT !.current_heading = Some(token.content)]
            ELSE IF token.type = "heading_close" THEN st
            ELSE IF ~IsNone(st.current_heading)
            THEN [st EXCEPT !.current_content_tokens = Append(@, token)]
            ELSE st
        RECURSIVE for_tokens(_, _)
        for_tokens(st, i) ==
            IF st.raises \/ i > Len(tokens) THEN st
            ELSE for_tokens(for_token(st, i), i + 1)
        walked == for_tokens([raises |-> FALSE, title |-> None, sections |-> <<>>,
                              current_heading |-> None, current_level |-> None,
                              current_content_tokens |-> <<>>,
                              heading_start_pos |-> 0], 1)
        last == IF walked.raises \/ IsNone(walked.current_heading) THEN walked
                ELSE ParsedSection(walked, Len(markdown_text))
    IN  IF last.raises THEN Raised
        ELSE Returned([title |-> last.title, sections |-> last.sections,
                       source_text |-> markdown_text])

\* document = MarkdownParser().parse(markdown_text)
ParseDirectly ==
    /\ ~IsNone(direct)
    /\ Val(direct).function = "parse"
    /\ IsNone(Val(direct).result)
    /\ direct' = Some([Val(direct) EXCEPT
                         !.result = Some(Parse(Val(direct).args))])
    /\ UNCHANGED <<genVars, valVars, grading>>

\* ------------------------------------------------------------------------
\* Synthetic students
\* ------------------------------------------------------------------------
\* a split of count over the profiles that drops the remainder
GenerateStudentsEvenSplit(seed, exam, count) ==
    [k \in 1..(4 * (count \div 4)) |->
        [student_id |-> <<"s", "t", "u", "d", "e", "n", "t", "-">> \o Pad3(k - 1),
         profile |-> <<"strong", "medium", "weak", "guessing">>[
                        1 + (k - 1) \div (count \div 4)],
         answers |-> [q \in DOMAIN exam |-> [question_id |-> exam[q].id]]]]

\* SyntheticStudentGenerator(seed).generate_students(exam, count), count >= 0.
\* self._rng is the generator's own random source; random() is the next
\* state as a fraction of RngMod, compared in hundredths with the accuracy.
GenerateStudents(seed, exam, count) ==
    LET profiles == <<"strong", "medium", "weak", "guessing">>
        accuracy == [strong |-> 85, medium |-> 65, weak |-> 40, guessing |-> 25]
        per_profile == count \div Len(profiles)
        remainder(p) == IF (count % Len(profiles)) - (p - 1) > 0
                        THEN (count % Len(profiles)) - (p - 1) ELSE 0
        num(p) == per_profile + (IF remainder(p) > 0 THEN 1 ELSE 0)
        RECURSIVE before(_)
        before(p) == IF p = 1 THEN 0 ELSE before(p - 1) + num(p - 1)
        profile(idx) == profiles[CHOOSE p \in DOMAIN profiles :
                                    before(p) <= idx /\ idx < before(p) + num(p)]
        random(s) == [value |-> (100 * RngNext(s)) \div RngMod, rng |-> RngNext(s)]
        choice_answer(s, correct, options, acc) ==
            LET d == random(s)
                incorrect == SelectSeq([i \in DOMAIN options |-> i - 1],
                                       LAMBDA i : i \notin Range(correct))
            IN  IF d.value <= acc \/ incorrect = <<>>
                THEN [value |-> correct, rng |-> d.rng]
                ELSE LET c == RandomChoice(d.rng, incorrect)
                     IN  [value |-> <<c.value>>, rng |-> c.rng]
        RECURSIVE split(_, _)
        split(text, k) ==
            IF k > Len(text) THEN <<>>
            ELSE IF IsSpaceChar(text[k]) THEN split(text, k + 1)
            ELSE LET stops == {e \in k..Len(text) : IsSpaceChar(text[e])}
                     stop == IF stops = {} THEN Len(text) + 1
                             ELSE CHOOSE e \in stops : \A f \in stops : e <= f
                 IN  <<SubSeq(text, k, stop - 1)>> \o split(text, stop)
        RECURSIVE join(_, _)
        join(words, k) == IF k = 0 THEN <<>>
                          ELSE IF k = 1 THEN words[1]
                          ELSE join(words, k - 1) \o <<" ">> \o words[k]
        RECURSIVE shuffle(_, _, _)
        shuffle(s, x, i) ==
            IF i < 1 THEN [value |-> x, rng |-> s]
            ELSE LET d == RandBelow(s, i + 1)
                 IN  shuffle(d.rng, Swap(x, i, d.value), i - 1)
        max(a, b) == IF a >= b THEN a ELSE b
        min(a, b) == IF a <= b THEN a ELSE b
        open_ended_answer(s, reference, acc) ==
            IF ~Truthy(reference)
            THEN [value |-> <<"N","o"," ","r","e","f","e","r","e","n","c","e"," ",
                              "p","r","o","v","i","d","e","d",".">>, rng |-> s]
            ELSE LET words == split(Val(reference), 1) IN
            IF words = <<>>
            THEN [value |-> <<"N","o"," ","c","o","n","t","e","n","t",".">>, rng |-> s]
            ELSE LET d == random(s) IN
            IF d.value <= acc
            THEN [value |-> join(words, min(Len(words), max(4, (Len(words) * 7) \div 10))),
                  rng |-> d.rng]
            ELSE LET shuffled == shuffle(d.rng, words, Len(words) - 1)
                 IN  [value |-> join(shuffled.value,
                                     min(Len(words), max(3, Len(words) \div 3))),
                      rng |-> shuffled.rng]
        RECURSIVE generate_answers(_, _, _)
        generate_answers(s, acc, q) ==
            IF q > Len(exam) THEN [value |-> <<>>, rng |-> s]
            ELSE LET answer ==
                        IF exam[q].type = "open_ended"
                        THEN LET a == open_ended_answer(s, exam[q].reference_answer, acc)
                             IN  [value |-> [question_id |-> exam[q].id,
                                             text_answer |-> a.value], rng |-> a.rng]
                        ELSE LET a == choice_answer(s, Val(exam[q].correct),
                                                    Val(exam[q].options), acc)
                             IN  [value |-> [question_id |-> exam[q].id,
                                             choice |-> a.value], rng |-> a.rng]
                     rest == generate_answers(answer.rng, acc, q + 1)
                 IN  [value |-> <<answer.value>> \o rest.value, rng |-> rest.rng]
        total == before(Len(profiles)) + num(Len(profiles))
        RECURSIVE students(_, _)
        students(s, idx) ==
            IF idx >= total THEN <<>>
            ELSE LET answers == generate_answers(s, accuracy[profile(idx)], 1)
                 IN  <<[student_id |-> <<"s", "t", "u", "d", "e", "n", "t", "-">> \o Pad3(idx),
                        profile |-> profile(idx),
                        answers |-> answers.value]>> \o students(answers.rng, idx + 1)
    IN  SubSeq(students(SeedState(seed), 0), 1, min(count, total))

\* students = SyntheticStudentGenerator(seed).generate_students(exam, count)
GenerateDirectly ==
    /\ ~IsNone(direct)
    /\ Val(direct).function = "generate_students"
    /\ IsNone(Val(direct).result)
    /\ direct' = Some([Val(direct) EXCEPT !.result =
                         Some(GenerateStudents(Val(direct).args.seed,
                                               Val(direct).args.exam,
                                               Val(direct).args.count))])
    /\ UNCHANGED <<genVars, valVars, grading>>

\* sections = retriever.retrieve_relevant_sections(document, query, top_k)
RetrieveDirectly ==
    /\ ~IsNone(direct)
    /\ Val(direct).function = "retrieve_relevant_sections"
    /\ IsNone(Val(direct).result)
    /\ \E r \in {RetrieveRelevantSections(rng, Val(direct).args.document,
                                          Val(direct).args.query,
                                          Val(direct).args.top_k)} :
         /\ direct' = Some([Val(direct) EXCEPT !.result = Some(r.value)])
         /\ rng' = r.rng
    /\ UNCHANGED <<generator, call, other_draws, valVars, grading>>

\* one direct call.  ExamConfig: counts with the other fields at their
\* defaults, or a total and three ratios.  parse: a Markdown text of at most
\* MaxLines lines, with one kind of line end throughout and with or without
\* a line end after the last line.  retrieve_relevant_sections: a document of
\* at most MaxSections sections, a query or none, and top_k up to MaxTopK.
CallInit ==
    LET config(counts, total, ratios) ==
            [single_choice_count |-> counts[1], multiple_choice_count |-> counts[2],
             open_ended_count |-> counts[3], total_questions |-> total,
             single_choice_ratio |-> ratios[1], multiple_choice_ratio |-> ratios[2],
             open_ended_ratio |-> ratios[3]]
        kinds == {<<"#", " ", "T">>, <<"#", "#", " ", "A">>, <<"x">>,
                  <<"-", " ", "i">>, <<>>, <<"~", "~", "~">>}
        RECURSIVE join(_, _, _)
        join(lines, newline, k) ==
            IF k = 0 THEN <<>>
            ELSE IF k = 1 THEN lines[1]
            ELSE join(lines, newline, k - 1) \o newline \o lines[k]
    IN  /\ NoGeneration
        /\ grading = <<>>
        /\ \/ \E counts \in [1..3 -> {None} \cup {Some(n) : n \in {0, 1, 50, 51}}] :
                direct = Direct("ExamConfig", config(counts, 20, <<50, 30, 20>>))
           \/ \E total \in {1, 10, 20, MaxTotalQuestions},
                 ratios \in [1..3 -> {0, 20, 30, 33, 34, 50, 67, 100}] :
                direct = Direct("ExamConfig", config(<<None, None, None>>, total, ratios))
           \/ \E lines \in UNION { [1..n -> kinds] : n \in 0..MaxLines },
                 newline \in {<<"\n">>, <<"\r", "\n">>, <<"\r">>},
                 last \in {<<>>, <<"\n">>} :
                direct = Direct("parse", join(lines, newline, Len(lines)) \o last)
           \/ \E n \in 0..MaxSections, top_k \in 0..MaxTopK,
                 query \in {<<>>, SampleText.cell_wall, SampleText.gene_code,
                            FixtureText.what_is_alpha} :
                \E contents \in [1..n -> {<<>>, SampleText.cell, SampleText.cell_wall,
                                          SampleText.gene_code}] :
                   direct = Direct("retrieve_relevant_sections",
                       [document |->
                           [title |-> None,
                            sections |-> [i \in 1..n |->
                                Section(<<"S", DigitChars[i + 1]>>, contents[i], 2, i, i)],
                            source_text |-> <<>>],
                        query |-> query, top_k |-> top_k])

SpecCalls == CallInit /\ [][Construct \/ ParseDirectly \/ RetrieveDirectly]_vars

\* one direct call of generate_students: the three questions of the tests'
\* build_exam in any order, or some of them, a seed, and a count up to
\* MaxCount.
StudentsInit ==
    LET build_exam ==
        <<[id |-> "q1", type |-> "single_choice",
           options |-> Some(<<<<"3">>, <<"4">>, <<"5">>>>), correct |-> Some(<<1>>),
           reference_answer |-> None],
          [id |-> "q2", type |-> "multiple_choice",
           options |-> Some(<<<<"1">>, <<"2">>, <<"3">>, <<"4">>>>),
           correct |-> Some(<<1, 3>>), reference_answer |-> None],
          [id |-> "q3", type |-> "open_ended", options |-> None, correct |-> None,
           reference_answer |-> Some(<<"a", " ", "b", " ", "c", " ", "d", " ", "e">>)]>>
    IN  /\ NoGeneration
        /\ grading = <<>>
        /\ \E n \in 1..3, seed \in RngStates, count \in 0..MaxCount :
              \E order \in [1..n -> 1..3] :
                 /\ \A a, b \in 1..n : a # b => order[a] # order[b]
                 /\ direct = Direct("generate_students",
                        [seed |-> seed, count |-> count,
                         exam |-> [q \in 1..n |-> build_exam[order[q]]]])

SpecStudents == StudentsInit /\ [][GenerateDirectly]_vars

\* ------------------------------------------------------------------------
\* Properties of one generate() call
\* ------------------------------------------------------------------------
G == call[1]

Strict == generator.strict_validation

Done(c) == call[c].pc = "done"

AllFalse(h) == \A k \in DOMAIN h : ~h[k]

IsPermutation(a, b) ==
    /\ Len(a) = Len(b)
    /\ \E f \in [DOMAIN a -> DOMAIN b] :
          /\ \A x, y \in DOMAIN a : x # y => f[x] # f[y]
          /\ \A x \in DOMAIN a : a[x] = b[f[x]]

\* C1: without strict validation exactly one round is run; once validated it
\* is accepted and returned whether valid or not, with or without a pinned
\* seed, and generate never fails with the validation error.
C1_NonStrictAcceptsFirstRound ==
    ~Strict =>
        /\ G.rounds <= 1
        /\ Len(G.history) <= 1
        /\ G.result.kind # "validation_error"
        /\ (Done(1) /\ G.history # <<>>) => G.result.kind = "exam"
        /\ G.result.kind = "exam" =>
              /\ G.rounds = 1
              /\ Len(G.history) = 1
              /\ IF SeedPinned(G.config)
                 THEN IsPermutation(G.result.questions, G.candidates)
                 ELSE G.result.questions = G.candidates

C1_Witness ==
    /\ ~Strict
    /\ SeedPinned(G.config)
    /\ generator.max_validation_attempts = 3
    /\ G.result.kind = "exam"
    /\ G.history = <<FALSE>>

\* C2: in strict mode without a pinned seed, full rounds follow one another,
\* each retry after a random re-seed, until the first valid round, whose
\* questions are returned; the validation error is raised exactly when all
\* max_validation_attempts rounds were validated and found invalid.
C2_StrictRetriesUntilValid ==
    (Strict /\ ~SeedPinned(G.config)) =>
        /\ \A k \in DOMAIN G.history : k < Len(G.history) => ~G.history[k]
        /\ G.rounds >= 1 =>
              G.reseeded = IF G.pc = "for_attempt" THEN G.rounds ELSE G.rounds - 1
        /\ G.history # <<>> => Len(G.candidates) = NumQuestions(G.config)
        /\ G.result.kind = "exam" =>
              /\ G.history # <<>>
              /\ G.history[Len(G.history)]
              /\ G.result.questions = G.candidates
        /\ Done(1) =>
              (G.result.kind = "validation_error"
                 <=> (Len(G.history) = generator.max_validation_attempts
                      /\ AllFalse(G.history)))

C2_Witness ==
    /\ Strict
    /\ ~SeedPinned(G.config)
    /\ G.result.kind = "exam"
    /\ G.history = <<FALSE, FALSE, TRUE>>

\* C3: every generate call terminates, and it never starts more rounds nor
\* runs the validator more often than max_validation_attempts.
C3_TerminatesWithinAttempts ==
    /\ <>Done(1)
    /\ [](/\ G.rounds <= generator.max_validation_attempts
          /\ Len(G.history) <= generator.max_validation_attempts)

C3_Witness ==
    /\ Done(1)
    /\ generator.max_validation_attempts = 3
    /\ G.rounds = 3
    /\ G.result.kind = "validation_error"

\* C4: with a pinned seed the random source is seeded exactly once and never
\* re-seeded, and no second round is run; an invalid first round in strict
\* mode ends in the validation error after that single round.
C4_PinnedSeedSingleRound ==
    SeedPinned(G.config) =>
        /\ G.reseeded = 0
        /\ G.rounds <= 1
        /\ Len(G.history) <= 1
        /\ G.seeded <= 1
        /\ (G.pc \notin {"idle", "start"} /\ G.result.kind # "value_error") => G.seeded = 1
        /\ (Strict /\ Done(1) /\ G.history = <<FALSE>>) =>
              (G.result.kind = "validation_error" /\ G.rounds = 1)

C4_Witness ==
    /\ SeedPinned(G.config)
    /\ Strict
    /\ generator.max_validation_attempts = 3
    /\ Done(1)
    /\ G.history = <<FALSE>>
    /\ G.result.kind = "validation_error"

\* the types a round emits, in order
ExpectedTypes(config) ==
    [k \in 1..config.single_choice_count |-> "single_choice"]
    \o [k \in 1..config.multiple_choice_count |-> "multiple_choice"]
    \o [k \in 1..config.open_ended_count |-> "open_ended"]

IsPrefix(a, b) == Len(a) <= Len(b) /\ a = SubSeq(b, 1, Len(a))

\* q-001, q-002, ... written out
ExpectedId(k) == <<"q", "-", "0", "0", DigitChars[k + 1]>>

\* C5: in a round the capability is called for the single_choice questions,
\* then the multiple_choice, then the open_ended ones, ids q-001, q-002, ...
\* follow that order; without a seed the exam lists the questions in that
\* order, with a seed it is a permutation of the same questions.
C5_EmissionOrder ==
    /\ IsPrefix(G.cap_log, ExpectedTypes(G.config))
    /\ \A k \in DOMAIN G.candidates :
          /\ G.candidates[k].type = ExpectedTypes(G.config)[k]
          /\ G.candidates[k].id = ExpectedId(k)
    /\ G.history # <<>> => Len(G.candidates) = NumQuestions(G.config)
    /\ G.result.kind = "exam" =>
          IF SeedPinned(G.config)
          THEN IsPermutation(G.result.questions, G.candidates)
          ELSE G.result.questions = G.candidates

C5_Witness ==
    /\ SeedPinned(G.config)
    /\ G.result.kind = "exam"
    /\ Len(G.candidates) = 3
    /\ G.result.questions # G.candidates

DistinctIds(questions) ==
    \A a, b \in DOMAIN questions : a # b => questions[a].id # questions[b].id

SpanInSource(ref, document) ==
    0 <= ref.start /\ ref.start <= ref.end /\ ref.end <= Len(document.source_text)

\* C6 as stated: every returned exam has pairwise distinct ids and every
\* question has exactly one reference whose span lies within the source text.
C6_Original ==
    G.result.kind = "exam" =>
        /\ DistinctIds(G.result.questions)
        /\ \A k \in DOMAIN G.result.questions :
              LET refs == G.result.questions[k].source_refs
              IN  Len(refs) = 1 /\ SpanInSource(refs[1], G.document)

\* the type, chosen section and resolved difficulty of every question
Shape(questions) ==
    [k \in DOMAIN questions |->
        <<questions[k].type, questions[k].source_refs[1].heading,
          questions[k].meta.difficulty>>]

\* C7 as stated: each of two concurrent calls with pinned seeds returns the
\* exam it returns when it is run alone.
C7_Original ==
    /\ call[3].pc = "done" => call[3].result = call[1].result
    /\ call[4].pc = "done" => call[4].result = call[2].result

\* C8: two calls one after the other with the same document, the same config
\* with a pinned seed and the deterministic capability end the same way, and
\* their question lists have the same types, sections and difficulties,
\* whatever was drawn from the random source before each call.
C8_SeededCallsAgree ==
    (call[1].pc = "done" /\ call[2].pc = "done") =>
        /\ call[1].result.kind = call[2].result.kind
        /\ Shape(call[1].result.questions) = Shape(call[2].result.questions)

C8_Witness ==
    /\ call[1].pc = "done"
    /\ call[2].pc = "done"
    /\ call[2].result.kind = "exam"
    /\ Len(call[2].result.questions) = 3
    /\ other_draws = MaxOtherDraws
    /\ call[2].result.questions # call[2].candidates
    /\ \E a, b \in 1..3 : Shape(call[2].result.questions)[a][3]
                            # Shape(call[2].result.questions)[b][3]

V == Val(v_result)

\* the question shares no term with the source document
Ungrounded(q, document) ==
    ExtractTerms(QuestionText(q)) \cap ExtractTerms(document.source_text) = {}

\* the number of questions with a non-empty overlap
NumGrounded ==
    Cardinality({k \in DOMAIN v_input.questions :
                    ~Ungrounded(v_input.questions[k], v_input.document)})

\* valid iff no issues, and every ungrounded question has its issue
ValidIffNoIssues ==
    /\ V.valid <=> V.issues = <<>>
    /\ \A k \in DOMAIN v_input.questions :
          Ungrounded(v_input.questions[k], v_input.document) =>
             /\ \E n \in DOMAIN V.issues :
                   V.issues[n] = Issue("ungrounded", v_input.questions[k].id)
             /\ ~V.valid

\* C10 as stated: valid iff the issues list is empty, every ungrounded
\* question adds an issue and so makes the exam invalid, and groundedRatio is
\* exactly grounded / total (the ratio is held in thousandths).
C10_Original ==
    ~IsNone(v_result) =>
        /\ ValidIffNoIssues
        /\ V.grounded_ratio * Len(v_input.questions) = 1000 * NumGrounded

\* C10 amended: valid iff the issues list is empty, every ungrounded question
\* adds an issue and so makes the exam invalid, and groundedRatio is
\* grounded / total rounded to three decimals: it is a whole number of
\* thousandths at most half a thousandth away from the quotient.
C10_RatioRoundedToThousandths ==
    ~IsNone(v_result) =>
        /\ ~V.raised
        /\ ValidIffNoIssues
        /\ 2 * (V.grounded_ratio * Len(v_input.questions) - 1000 * NumGrounded)
              <= Len(v_input.questions)
        /\ 2 * (1000 * NumGrounded - V.grounded_ratio * Len(v_input.questions))
              <= Len(v_input.questions)

C10_Witness ==
    /\ ~IsNone(v_result)
    /\ Len(v_input.questions) = 3
    /\ NumGrounded = 2
    /\ V.grounded_ratio = 667
    /\ ~V.valid
    /\ \A n \in DOMAIN V.issues : V.issues[n].kind = "ungrounded"

\* ------------------------------------------------------------------------
\* Properties of one grade() call
\* ------------------------------------------------------------------------
\* the grade() call; its position is "idle" when grade is not called
GR == grading[1]

UnknownIds(request) ==
    {i \in DOMAIN request : request[i].question_id \notin DOMAIN GradedExam}

\* C11: grade is fail-fast.  When the request has no answers, or an
\* answer at any position names a question the exam does not have, the
\* call ends by raising the input error (ValueError) with no answer graded,
\* the grading capability never invoked and no response built.
C11_FailFastOnBadInput ==
    (GR.pc # "idle" /\ (GR.request = <<>> \/ UnknownIds(GR.request) # {})) =>
        /\ GR.pc \in {"start", "raised"}
        /\ GR.pc = "raised" =>
              GR.error = Some(IF GR.request = <<>> THEN "ValueError: no answers"
                              ELSE "ValueError: not found")
        /\ GR.results = <<>>
        /\ GR.invoked = <<>>
        /\ IsNone(GR.response)

\* the unknown id comes last, after an open-ended answer that would have
\* reached the grading capability
C11_Witness ==
    /\ GR.pc = "raised"
    /\ Len(GR.request) = 2
    /\ UnknownIds(GR.request) = {2}
    /\ InvokesCapability(GR.request[1])
    /\ GR.results = <<>>

\* C12: a request that passes the two input checks gets a response with
\* exactly one result per submitted answer, in submission order, and
\* summary.total is the number of answers; the call never raises, whatever
\* the shape of an answer and the type of the question it answers.
C12_Original ==
    (GR.request # <<>> /\ UnknownIds(GR.request) = {}) =>
        /\ GR.pc # "raised"
        /\ GR.pc = "done" =>
              LET response == Val(GR.response) IN
              /\ Len(response.per_question) = Len(GR.request)
              /\ \A k \in DOMAIN GR.request :
                    response.per_question[k].question_id = GR.request[k].question_id
              /\ response.summary.total = Len(GR.request)

\* the results of the call for answers to questions of one type, as
\* <<position, question, answer, result>>
Graded(type) ==
    { <<k, GradedExam[GR.request[k].question_id], GR.request[k], GR.results[k]>> :
        k \in { j \in DOMAIN GR.results :
                   GradedExam[GR.request[j].question_id].type = type } }

SameWhenSorted(a, b) ==
    /\ Len(a) = Len(b)
    /\ \A x \in Range(a) \cup Range(b) :
          Cardinality({i \in DOMAIN a : a[i] = x}) = Cardinality({i \in DOMAIN b : b[i] = x})

\* credit <<num, den>> is max(0, min(1, (|E \cap S| - |S \ E|) / |E|)), and
\* 0 when E is empty
IsClampedFormula(credit, expected, given) ==
    LET E == Range(expected)
        S == Range(given)
        raw == Cardinality(E \cap S) - Cardinality(S \ E)
        clamped == IF raw < 0 THEN 0 ELSE IF raw > Cardinality(E) THEN Cardinality(E) ELSE raw
    IN  /\ credit[2] > 0
        /\ IF E = {} THEN credit[1] = 0
           ELSE credit[1] * Cardinality(E) = clamped * credit[2]

\* the last direct call, when it has returned
Returns(function) ==
    /\ ~IsNone(direct)
    /\ Val(direct).function = function
    /\ ~IsNone(Val(direct).result)

\* C14: a multiple_choice answer is correct with credit 1.0 when
\* sorted(expected) == sorted(given); otherwise it is incorrect and the
\* credit is max(0, min(1, (|expected \cap given| - |given \ expected|) /
\* |expected|)) with partial credit enabled and 0.0 with it disabled; the
\* credit lies in [0, 1] and the result carries it rounded to 4 decimals.
\* calculate_partial_credit returns the formula, 0.0 for an empty expected.
C14_MultipleChoiceCredit ==
    /\ \A g \in Graded("multiple_choice") :
          LET expected == Val(g[2].correct)
              given == Val(g[3].choice)
              credit == Val(GR.credits[g[1]])
          IN  /\ g[4].is_correct = SameWhenSorted(expected, given)
              /\ IF g[4].is_correct THEN credit[1] = credit[2]
                 ELSE IF GR.partial_credit THEN IsClampedFormula(credit, expected, given)
                 ELSE credit[1] = 0
              /\ credit[2] > 0 /\ credit[1] \in 0..credit[2]
              /\ g[4].partial_credit = RoundScaled(10000, credit[1], credit[2])
              /\ g[4].partial_credit \in 0..10000
    /\ Returns("calculate_partial_credit") =>
          LET credit == Val(Val(direct).result) IN
          /\ IsClampedFormula(credit, Val(direct).args[1], Val(direct).args[2])
          /\ credit[1] \in 0..credit[2]

\* expected [0, 2, 4] and given [0, 1, 2]: two right, one wrong, credit 1/3
C14_Witness ==
    /\ Returns("calculate_partial_credit")
    /\ Val(direct).args = <<(<<0, 2, 4>>), (<<0, 1, 2>>)>>
    /\ Val(Val(direct).result) = <<1, 3>>

\* C15: partial credit is monotonic in the selection.  For every expected
\* list and given list, selecting one more expected option never lowers
\* calculate_partial_credit and selecting one more option that is not
\* expected never raises it.
C15_CreditMonotonic ==
    Returns("calculate_partial_credit") =>
        LET expected == Val(direct).args[1]
            given == Val(direct).args[2]
            credit == Val(Val(direct).result)
        IN  \A option \in 0..MaxIndex :
              LET more == CalculatePartialCredit(expected, Append(given, option)) IN
              /\ option \in Range(expected) \ Range(given) =>
                    more[1] * credit[2] >= credit[1] * more[2]
              /\ option \notin Range(expected) =>
                    more[1] * credit[2] <= credit[1] * more[2]

\* expected [0, 2, 4], given [0, 2] with credit 2/3: one more right option
\* gives 3/3, one wrong option gives 1/3
C15_Witness ==
    /\ Returns("calculate_partial_credit")
    /\ Val(direct).args = <<(<<0, 2, 4>>), (<<0, 2>>)>>
    /\ Val(Val(direct).result) = <<2, 3>>
    /\ CalculatePartialCredit(<<0, 2, 4>>, <<0, 2, 4>>) = <<3, 3>>
    /\ CalculatePartialCredit(<<0, 2, 4>>, <<0, 2, 1>>) = <<1, 3>>

\* the results of open-ended answers without text (None or "")
Unanswered ==
    { g \in Graded("open_ended") : ~Truthy(g[3].text_answer) }

\* C16: an open-ended answer without text gets credit 0.0, is incorrect,
\* carries the fixed no-answer feedback and a rubric score of 0 for every
\* rubric item, and the grading capability is not invoked for it.
C16_Original ==
    \A g \in Unanswered :
        /\ g[4].partial_credit = 0
        /\ ~g[4].is_correct
        /\ g[4].feedback = Some(<<"No answer provided.">>)
        /\ g[1] \notin Range(GR.invoked)
        /\ "rubric_scores" \in DOMAIN g[4]
        /\ g[4].rubric_scores = [k \in DOMAIN Val(g[2].rubric) |-> 0]

\* what grading the answer at position k alone gives
GradedAlone(k) ==
    LET student_answer == GR.request[k]
        question == GradedExam[student_answer.question_id]
    IN  IF question.type = "open_ended"
        THEN GradeOpenEndedQuestion(question, student_answer, GR.capability[k])
        ELSE GradeChoiceQuestion(question, student_answer.choice, GR.partial_credit)

\* the positions at which the grading capability is invoked and fails
FailedAt ==
    { k \in DOMAIN GR.request :
        InvokesCapability(GR.request[k]) /\ GR.capability[k].raises }

\* C17: when the grading capability fails for an open-ended answer, grade
\* does not raise; the answer gets credit 0.0, is incorrect and carries the
\* failure text as feedback, and every other answer of the request gets the
\* result it gets without the failure.
C17_Original ==
    (GR.pc # "idle" /\ GR.request # <<>> /\ UnknownIds(GR.request) = {}
        /\ FailedAt # {}) =>
        /\ GR.pc # "raised"
        /\ \A k \in FailedAt \cap DOMAIN GR.results :
              /\ GR.results[k].partial_credit = 0
              /\ ~GR.results[k].is_correct
              /\ GR.results[k].feedback = Some(<<"Grading failed: ", "capability error">>)
        /\ \A k \in DOMAIN GR.results : GR.results[k] = GradedAlone(k).result

\* What holds of a failed grading whatever else the request holds: the
\* failed answer gets the zero result, every graded answer gets the result
\* it gets alone, and a call raises only at an answer to a multiple_choice
\* question, never at the failed open-ended answer.
CapabilityFailureContained ==
    (GR.pc # "idle" /\ GR.request # <<>> /\ UnknownIds(GR.request) = {}) =>
        /\ \A k \in FailedAt \cap DOMAIN GR.results :
              /\ GR.results[k].partial_credit = 0
              /\ ~GR.results[k].is_correct
              /\ GR.results[k].feedback = Some(<<"Grading failed: ", "capability error">>)
              /\ GR.results[k].given_text = GR.request[k].text_answer
        /\ \A k \in DOMAIN GR.results : GR.results[k] = GradedAlone(k).result
        /\ GR.pc = "raised" =>
              LET at == GR.request[Len(GR.results) + 1] IN
              /\ GradedExam[at.question_id].type = "multiple_choice"
              /\ IsNone(at.choice)
        /\ GR.pc = "done" => Len(Val(GR.response).per_question) = Len(GR.request)

RECURSIVE SumCredit(_, _)
\* the sum of partial_credit over the first k results, in ten-thousandths
SumCredit(results, k) ==
    IF k = 0 THEN 0 ELSE SumCredit(results, k - 1) + results[k].partial_credit

\* C18: in every response, summary.total is the number of results,
\* summary.correct the number of correct results (at most total), and
\* summary.score_percent is 100 * sum(partial_credit) / total rounded to
\* the nearest hundredth, within 0 .. 100.
C18_SummaryIsCreditWeighted ==
    GR.pc = "done" =>
        LET response == Val(GR.response)
            results == response.per_question
            summary == response.summary
            credit == SumCredit(results, Len(results))
            distance == summary.total * summary.score_percent - credit
        IN  /\ summary.total = Len(results)
            /\ summary.total > 0
            /\ summary.correct = Cardinality({k \in DOMAIN results : results[k].is_correct})
            /\ summary.correct <= summary.total
            /\ 2 * distance <= summary.total
            /\ -2 * distance <= summary.total
            /\ summary.score_percent \in 0..10000

\* a correct answer and an incorrect one with credit 0.5 give 75.00
C18_Witness ==
    /\ GR.pc = "done"
    /\ Len(GR.results) = 2
    /\ GR.results[1].is_correct
    /\ ~GR.results[2].is_correct /\ GR.results[2].partial_credit = 5000
    /\ Val(GR.response).summary = [total |-> 2, correct |-> 1, score_percent |-> 7500]

\* ------------------------------------------------------------------------
\* Properties of ExamConfig construction
\* ------------------------------------------------------------------------
\* C19: every accepted ExamConfig, in count mode and in ratio mode, has
\* counts >= 0 that add up to total_questions, with 1 <= total_questions
\* <= 100; in ratio mode single and multiple are the truncated products
\* total * ratio and open-ended takes the remainder.
C19_Original ==
    (Returns("ExamConfig") /\ ~Val(Val(direct).result).raises) =>
        LET config == Val(Val(direct).result)
            kwargs == Val(direct).args
            truncated(ratio) ==
                LET product == kwargs.total_questions * ratio IN
                {product \div 100} \cup
                    (IF product % 100 = 0 /\ product > 0 THEN {product \div 100 - 1} ELSE {})
        IN  /\ config.mode = "ratios" =>
                  /\ config.single_choice_count \in truncated(kwargs.single_choice_ratio)
                  /\ config.multiple_choice_count
                        \in truncated(kwargs.multiple_choice_ratio)
            /\ config.single_choice_count + config.multiple_choice_count
                  + config.open_ended_count = config.total_questions
            /\ config.total_questions \in 1..MaxTotalQuestions
            /\ config.single_choice_count >= 0
            /\ config.multiple_choice_count >= 0
            /\ config.open_ended_count >= 0

\* ------------------------------------------------------------------------
\* Properties of one parse() call
\* ------------------------------------------------------------------------
\* the document that parse returned is the heading structure of its text:
\* the title is the first level-1 heading, the sections are the other
\* headings in document order, and a section's content is the text of the
\* block tokens after its heading and before the next heading of any kind
HeadingStructure ==
    LET markdown_text == Val(direct).args
        document == Val(Val(direct).result).result
        tokens == MdParse(markdown_text)
        headings == {i \in DOMAIN tokens : tokens[i].type = "heading_open"}
        first == {i \in headings : tokens[i].tag = <<"h", "1">> /\
                     \A j \in headings : tokens[j].tag = <<"h", "1">> => i <= j}
        others == headings \ first
        nth(k) == CHOOSE i \in others : Cardinality({j \in others : j < i}) = k - 1
        next(i) == IF \E j \in headings : j > i
                   THEN CHOOSE j \in headings : j > i /\ \A h \in headings : h > i => j <= h
                   ELSE Len(tokens) + 1
    IN  /\ document.source_text = markdown_text
        /\ document.title = IF first = {} THEN None
                            ELSE Some(tokens[(CHOOSE i \in first : TRUE) + 1].content)
        /\ Len(document.sections) = Cardinality(others)
        /\ \A k \in DOMAIN document.sections :
              /\ document.sections[k].heading = tokens[nth(k) + 1].content
              /\ <<"h", DigitChars[document.sections[k].level + 1]>> = tokens[nth(k)].tag
              /\ document.sections[k].content =
                    Strip(TokensToText(SubSeq(tokens, nth(k) + 3, next(nth(k)) - 1),
                                       markdown_text))

\* C20: parse makes the first level-1 heading the title and not a section;
\* every other heading, of any level, before or after the title, opens
\* exactly one section; the sections are in document order and the content
\* of each is the blocks between its heading and the next heading or the
\* end of the document.
C20_Original == Returns("parse") => (~Val(Val(direct).result).raises /\ HeadingStructure)

\* every document that parse does return has the heading structure of its text
ReturnedHeadingStructure ==
    (Returns("parse") /\ ~Val(Val(direct).result).raises) => HeadingStructure

\* C21: in every document that parse returns, each section's offsets are
\* offsets into the original text with 0 <= start < end <= len(source_text),
\* start is the offset of the line of the section's heading, and the
\* sections do not overlap: each ends at or before the start of the next.
C21_Original ==
    (Returns("parse") /\ ~Val(Val(direct).result).raises) =>
        LET document == Val(Val(direct).result).result
            text == document.source_text
            sections == document.sections
        IN  /\ \A k \in DOMAIN sections :
                  /\ 0 <= sections[k].start_pos
                  /\ sections[k].start_pos < sections[k].end_pos
                  /\ sections[k].end_pos <= Len(text)
                  /\ text[sections[k].start_pos + 1] = "#"
                  /\ sections[k].start_pos = 0
                        \/ text[sections[k].start_pos] \in {"\n", "\r"}
            /\ \A k \in 1..(Len(sections) - 1) :
                  sections[k].end_pos <= sections[k + 1].start_pos

\* ------------------------------------------------------------------------
\* Properties of one retrieve_relevant_sections() call
\* ------------------------------------------------------------------------
\* the position in the document of the r-th returned section
Position(r) ==
    CHOOSE i \in DOMAIN Val(direct).args.document.sections :
        Val(direct).args.document.sections[i] = Val(Val(direct).result)[r]

C23_StudentsPerProfile ==
    Returns("generate_students") =>
        LET args == Val(direct).args
            students == Val(Val(direct).result)
            order == <<"strong", "medium", "weak", "guessing">>
            rank(profile) == CHOOSE p \in 1..4 : order[p] = profile
            of(p) == {k \in DOMAIN students : students[k].profile = order[p]}
        IN  /\ Len(students) = args.count
            /\ \A k \in DOMAIN students :
                  /\ students[k].profile \in Range(order)
                  /\ students[k].student_id =
                        <<"s", "t", "u", "d", "e", "n", "t", "-">> \o Pad3(k - 1)
                  /\ Len(students[k].answers) = Len(args.exam)
                  /\ \A q \in DOMAIN args.exam :
                        students[k].answers[q].question_id = args.exam[q].id
            /\ \A k \in 1..(Len(students) - 1) :
                  rank(students[k].profile) <= rank(students[k + 1].profile)
            /\ \A p \in 1..4 :
                  Cardinality(of(p)) = (args.count \div 4)
                                         + (IF p <= (args.count % 4) THEN 1 ELSE 0)

\* a call with a count that is not a multiple of 4 and gives some profile
\* two students, on an exam of three questions
C23_Witness ==
    /\ Returns("generate_students")
    /\ Val(direct).args.count = 6
    /\ Len(Val(direct).args.exam) = 3
    /\ Val(Val(direct).result)[2].profile = "strong"
    /\ Val(Val(direct).result)[4].profile = "medium"
    /\ Val(Val(direct).result)[6].profile = "guessing"

\* ------------------------------------------------------------------------
\* Further properties of one generate() call
\* ------------------------------------------------------------------------
\* C24: generate fails with the validation failure only in strict mode and
\* only after all max_validation_attempts rounds have been run and found
\* invalid, never after fewer rounds.
C24_Original ==
    G.result.kind = "validation_error" =>
        /\ Strict
        /\ AllFalse(G.history)
        /\ Len(G.history) = generator.max_validation_attempts

\* C24, amended: generate fails with the validation failure only in strict
\* mode and only when every round it ran was invalid; without a pinned seed
\* that is after all max_validation_attempts rounds, with a pinned seed it
\* is after the first round, whatever the maximum.
C24_FailsWhenExhaustedOrPinned ==
    G.result.kind = "validation_error" =>
        /\ Strict
        /\ AllFalse(G.history)
        /\ Len(G.history) = IF SeedPinned(G.config) THEN 1
                            ELSE generator.max_validation_attempts

\* a strict call with a pinned seed and two attempts allowed that failed
\* after one round
C24_Witness ==
    /\ G.result.kind = "validation_error"
    /\ SeedPinned(G.config)
    /\ generator.max_validation_attempts = 2
    /\ G.rounds = 1
    /\ Len(G.history) = 1

\* C25: when the capability fails in a round while no seed is pinned and
\* attempts remain, generate starts a fresh round instead of failing; the
\* capability failure ends generate only when no attempt remains or a seed
\* is pinned.
C25_Original ==
    (G.cap_failed /\ G.result.kind = "generation_error") =>
        \/ SeedPinned(G.config)
        \/ G.rounds = generator.max_validation_attempts


\* a reference that violates 0 <= start <= end <= len(source_text)
OutsideSource(ref, document) ==
    ~(0 <= ref.start /\ ref.start <= ref.end /\ ref.end <= Len(document.source_text))

\* the issues list holds a source-reference issue for the question
HasRefIssue(qid) ==
    \E n \in DOMAIN V.issues :
        V.issues[n] \in {Issue("invalid_span", qid), Issue("out_of_bounds", qid)}

\* C26: validate_exam does not raise on source references; a question whose
\* reference violates 0 <= start <= end <= len(source_text) gets a
\* source-reference issue, for every document including one whose source
\* text is empty, and a question without references gets a
\* missing-source_refs issue.
C26_Original ==
    (~IsNone(v_result) /\ ~V.raised) =>
        \A k \in DOMAIN v_input.questions :
            LET q == v_input.questions[k]
            IN  /\ q.source_refs = <<>> =>
                     \E n \in DOMAIN V.issues :
                         V.issues[n] = Issue("missing_source_refs", q.id)
                /\ (\E r \in DOMAIN q.source_refs :
                        OutsideSource(q.source_refs[r], v_input.document))
                     => HasRefIssue(q.id)


\* C27: for every open-ended result, is_correct is true exactly when the
\* partial credit reported in that result is at least 0.7 (the credit is in
\* ten-thousandths).
C27_Original ==
    \A g \in Graded("open_ended") :
        g[4].is_correct <=> (g[4].partial_credit >= 7000)


\* the open-ended results built from a response the capability returned and
\* the grader accepted (not the fallback for a failed grading)
Accepted ==
    { g \in Graded("open_ended") :
        /\ InvokesCapability(g[3])
        /\ ~GR.capability[g[1]].raises
        /\ g[4].feedback = Some(<<GR.capability[g[1]].result.feedback>>) }

\* C28: a response whose rubric_scores list has a length different from the
\* question's rubric is not accepted as a successful grading, and every
\* open-ended result produced from an accepted response has rubric_scores
\* as long as the rubric.
C28_Original ==
    \A g \in Accepted :
        /\ Len(GR.capability[g[1]].result.rubric_scores) = Len(Val(g[2].rubric))
        /\ "rubric_scores" \in DOMAIN g[4]
        /\ Len(g[4].rubric_scores) = Len(Val(g[2].rubric))

\* C29: for every choice-question result, the partial credit is 1.0 exactly
\* when is_correct is true, with partial credit enabled or disabled and for
\* any submitted index list, repeated indices included.
C29_Original ==
    \A g \in Graded("single_choice") \cup Graded("multiple_choice") :
        (g[4].partial_credit = 10000) <=> g[4].is_correct


\* the ids q-001 .. q-N of an exam of N questions
ExpectedIds(config) == {ExpectedId(k) : k \in 1..NumQuestions(config)}

\* C30: the question list and the id counter are reset at the start of every
\* round: the list never holds more than the questions of the round under
\* way, the counter is the length of the list, and the exam returned holds
\* exactly the questions validated in the final round (none of a rejected
\* round), N = single + multiple + open of them, with ids q-001 .. q-N,
\* however many rounds were run.
C30_RoundsStartEmpty ==
    /\ G.question_counter = Len(G.questions)
    /\ Len(G.questions) <= NumQuestions(G.config)
    /\ G.pc = "for_single" /\ G.i = 0 => G.questions = <<>>
    /\ G.result.kind = "exam" =>
          /\ Len(G.history) = G.rounds
          /\ IsPermutation(G.result.questions, G.candidates)
          /\ Len(G.result.questions) = NumQuestions(G.config)
          /\ {G.result.questions[k].id : k \in DOMAIN G.result.questions}
                = ExpectedIds(G.config)

C30_Witness ==
    /\ G.result.kind = "exam"
    /\ G.rounds = MaxAttempts
    /\ NumQuestions(G.config) > 1
    /\ G.llm_counter = MaxAttempts * NumQuestions(G.config)
    /\ {G.result.questions[k].id : k \in DOMAIN G.result.questions}
          = ExpectedIds(G.config)

====
